---- MODULE Spec2Model ----
(***************************************************************************)
(* A model of the announce Receiver (package announce): two ingress paths  *)
(* (the pubsub watcher and Direct) feed one admission pipeline            *)
(* (handleAnnounce / announceCheck) that ends in the 1-buffered outChan    *)
(* read by Next; Close shuts the receiver down and UncacheCid edits the    *)
(* announce cache.  Every goroutine is a task with a program counter; one  *)
(* action is one statement (or one run of statements that touch no shared  *)
(* state) of the Go code.                                                  *)
(***************************************************************************)
EXTENDS Integers, Sequences, FiniteSets, TLC

(***************************************************************************)
(* Bounds of the model and program constants.                              *)
(***************************************************************************)
\* const announceCacheSize = 64
announceCacheSize == 64
\* CIDs a caller may announce again and again are 1..NumCids.
NumCids == 2
\* Largest CID of the eviction scenario: CIDs above NumCids are announced
\* once each, in increasing order.
MaxCid == 67
\* Deliveries of one CID are counted up to this number.
MaxCount == 2
\* How many times the watcher may re-open its subscription.
MaxRestarts == 1

(***************************************************************************)
(* Tasks (goroutines).                                                     *)
(***************************************************************************)
Closers == {"c1", "c2"}
Directs == {"d1", "d2"}
Nexters == {"n1", "n2"}
Uncachers == {"u1"}
Watcher == "w"
Tasks == Closers \cup Directs \cup Nexters \cup Uncachers \cup {Watcher}

(***************************************************************************)
(* Values.                                                                 *)
(***************************************************************************)
\* Peer IDs are "H" (this receiver's host), "P" and "Q"; NoPeer is none.
NoPeer == "none"
\* Multiaddrs by the class mautil.FilterPublic sorts them into.
PublicAddr == "public"
PrivateAddr == "private"
LoopbackAddr == "loopback"
UnspecifiedAddr == "unspecified"
NilAddr == "nil"
NonPublicAddrs == {PrivateAddr, LoopbackAddr, UnspecifiedAddr}
DefaultAddrs == <<PublicAddr>>

Unlocked == "unlocked"
\* A nil AllowPeerFunc.
NilFunc == {"nil"}
\* An Announce: Cid, PeerID, Addrs.  The other fields are history: how the
\* announcement arrived, the gossip message's From and OrigPeer, whether
\* sender.Send was attempted for it, and the addresses it arrived with.
NoMsg == [Cid |-> 0, PeerID |-> NoPeer, Addrs |-> <<>>, via |-> "none",
          from |-> NoPeer, orig |-> NoPeer, sent |-> FALSE,
          announced |-> <<>>, by |-> "none", resendErr |-> "nil"]

\* Results of a call.
Pending == "pending"
Nil == "nil"
ErrClosed == "ErrClosed"
CtxErr == "ctxErr"
CloseErr == "closeErr"
SendErr == "sendErr"
errSourceNotAllowed == "errSourceNotAllowed"
errAlreadySeenCid == "errAlreadySeenCid"

VARIABLES
    \* ---- Receiver fields
    allowPeer,      \* NilFunc, or the set of peers the predicate allows
    filterIPs,
    resend,
    hostID,         \* NoPeer when constructed without a host
    announceCache,  \* stringLRU: sequence of keys, most recently used first
    announceMutex,  \* Unlocked, or the task that holds the mutex
    closed,
    cancelWatch,    \* "nil" | "set" | "called"
    watchDone,      \* "nil" | "open" | "closed"
    done,           \* number of times close(r.done) ran
    cancelPubsub,   \* "nil" | "set" | "called"
    sender,         \* "nil" | "open" | "closed"
    topic,          \* "nil" | "own" | "supplied" | "closed"
    topicSub,       \* 0 (nil) or the id of the current subscription
    outChan,        \* buffered channel of capacity 1
    \* ---- pubsub side
    subs,           \* subscription id -> "open" | "cancelled"
    \* ---- tasks
    pc,
    amsg,           \* the announcement a Direct call or the watcher handles
    ret,            \* result of the task's last completed call
    got,            \* announcement returned by the task's last Next
    \* ---- history
    tracked,        \* the CIDs whose history is kept (fixed at construction)
    traceCalls,     \* whether the call history (nextBlockedAtCall, pendingAdmits,
                    \* the by field of an announcement) is kept (fixed at
                    \* construction)
    nDelivered,     \* tracked CID -> number of times Next returned it (up to MaxCount)
    fresh,          \* largest CID announced so far
    uncachedSince,  \* tracked CID -> UncacheCid(c) ran since c was last admitted
    othersSince,    \* tracked CID -> other CIDs admitted since c was last announced
    seenSince,      \* tracked CID -> other CIDs that reached the cache (admitted
                    \* or found in it) since c was last announced
    everAdmitted,   \* tracked CID -> c passed announceCheck at least once
    windowPassed,   \* tracked CID -> when c was last admitted, at least
                    \* announceCacheSize other CIDs had been admitted since
                    \* its previous announcement
    uncachedSinceRecv, \* tracked CID -> UncacheCid(c) ran since Next last returned c
    calledAfterClose, \* task -> its current call began after a Close had returned
    nextBlockedAtCall, \* Close caller -> a Next call was blocked when Close was called
    lastIgnored,    \* why watch ignored the last message it skipped
    pendingAdmits   \* the announcements that passed announceCheck and were not
                    \* yet returned by Next nor given up by their sender, as
                    \* <<CID, ingress task>>, in the order they were admitted

recvVars == <<allowPeer, filterIPs, resend, hostID, announceCache, announceMutex,
              closed, cancelWatch, watchDone, done, cancelPubsub, sender, topic,
              topicSub, outChan>>
taskVars == <<pc, amsg, ret, got>>
histVars == <<tracked, traceCalls, nDelivered, fresh, uncachedSince, othersSince,
              seenSince, everAdmitted, windowPassed, uncachedSinceRecv,
              calledAfterClose, nextBlockedAtCall, lastIgnored, pendingAdmits>>
vars == <<recvVars, subs, taskVars, histVars>>
cfgVars == <<allowPeer, filterIPs, resend, hostID>>
topicVars == <<cancelPubsub, sender, topic>>

TrackedCids == 1..NumCids

(***************************************************************************)
(* stringLRU: a bounded set of keys in recency order.                      *)
(***************************************************************************)
Contains(cache, key) == \E i \in 1..Len(cache) : cache[i] = key

remove(cache, key) == SelectSeq(cache, LAMBDA k : k # key)

\* update reports whether key was present and moves it to the front;
\* an absent key is inserted, evicting the oldest key of a full cache.
update(cache, size, key) ==
    IF Contains(cache, key)
    THEN [found |-> TRUE, cache |-> <<key>> \o remove(cache, key)]
    ELSE LET ins == <<key>> \o cache
         IN  [found |-> FALSE,
              cache |-> IF Len(ins) > size THEN SubSeq(ins, 1, size) ELSE ins]

(***************************************************************************)
(* mautil.FilterPublic keeps public addresses and nil entries; private,    *)
(* loopback and unspecified addresses are removed.                         *)
(***************************************************************************)
\* A filter that lets every address through.
FilterNothing(addrs) == addrs

FilterPublic(addrs) == SelectSeq(addrs, LAMBDA a : a \notin NonPublicAddrs)

\* announceCheck that never consults the peer-allow predicate.
SourceNeverRejected(peerID) == FALSE

\* r.allowPeer != nil && !r.allowPeer(amsg.PeerID)
SourceNotAllowed(peerID) == allowPeer # NilFunc /\ peerID \notin allowPeer

(***************************************************************************)
(* NewReceiver.  cfg: host (p2pHost != nil), topicName (non-empty),        *)
(* optTopic (WithTopic given), allowPeer, filterIPs, resend.               *)
(***************************************************************************)
TopicOf(cfg) ==
    IF cfg.optTopic THEN "supplied"
    ELSE IF cfg.host /\ cfg.topicName THEN "own" ELSE "nil"

NewReceiver(cfg, trk, trc) ==
    LET t == TopicOf(cfg) IN
    /\ tracked = trk
    /\ traceCalls = trc
    /\ allowPeer = cfg.allowPeer
    /\ filterIPs = cfg.filterIPs
    /\ resend = (cfg.resend /\ t # "nil")
    /\ hostID = IF cfg.host THEN "H" ELSE NoPeer
    /\ announceCache = <<>>
    /\ announceMutex = Unlocked
    /\ closed = FALSE
    /\ cancelWatch = IF cfg.host THEN "set" ELSE "nil"
    /\ watchDone = IF cfg.host THEN "open" ELSE "nil"
    /\ done = 0
    /\ cancelPubsub = IF t = "own" THEN "set" ELSE "nil"
    /\ sender = IF t # "nil" THEN "open" ELSE "nil"
    /\ topic = t
    /\ topicSub = IF t # "nil" THEN 1 ELSE 0
    /\ outChan = <<>>
    /\ subs = IF t # "nil" THEN <<"open">> ELSE <<>>
    /\ pc = [x \in Tasks |-> IF x = Watcher
                               THEN (IF cfg.host THEN "w_read" ELSE "w_none")
                               ELSE "idle"]
    /\ amsg = [x \in Tasks |-> NoMsg]
    /\ ret = [x \in Tasks |-> Pending]
    /\ got = [x \in Nexters |-> NoMsg]
    /\ nDelivered = [c \in TrackedCids |-> 0]
    /\ fresh = NumCids
    /\ uncachedSince = [c \in TrackedCids |-> FALSE]
    /\ othersSince = [c \in TrackedCids |-> {}]
    /\ seenSince = [c \in TrackedCids |-> {}]
    /\ everAdmitted = [c \in TrackedCids |-> FALSE]
    /\ windowPassed = [c \in TrackedCids |-> FALSE]
    /\ uncachedSinceRecv = [c \in TrackedCids |-> FALSE]
    /\ calledAfterClose = [x \in Tasks |-> FALSE]
    /\ nextBlockedAtCall = [x \in Closers |-> FALSE]
    /\ lastIgnored = "none"
    /\ pendingAdmits = <<>>

(***************************************************************************)
(* Close                                                                   *)
(***************************************************************************)
SomeCloseReturned == \E c \in Closers : pc[c] = "returned"

\* A Next call is blocked: nothing is queued and done is open.
NextBlocked(n) == pc[n] = "n_wait" /\ outChan = <<>> /\ done = 0

CloseCall(t) ==
    /\ pc[t] = "idle"
    /\ pc' = [pc EXCEPT ![t] = "c_lock"]
    /\ calledAfterClose' = [calledAfterClose EXCEPT ![t] = SomeCloseReturned]
    /\ nextBlockedAtCall' = [nextBlockedAtCall EXCEPT
                               ![t] = traceCalls /\ \E n \in Nexters : NextBlocked(n)]
    /\ UNCHANGED <<recvVars, subs, amsg, ret, got, tracked, traceCalls, nDelivered,
                   fresh, uncachedSince, othersSince, seenSince, everAdmitted, windowPassed,
                   uncachedSinceRecv, lastIgnored, pendingAdmits>>

\* r.announceMutex.Lock()
CloseLock(t) ==
    /\ pc[t] = "c_lock"
    /\ announceMutex = Unlocked
    /\ announceMutex' = t
    /\ pc' = [pc EXCEPT ![t] = "c_locked"]
    /\ UNCHANGED <<cfgVars, announceCache, closed, cancelWatch, watchDone, done,
                   topicVars, topicSub, outChan, subs, amsg, ret, got, histVars>>

\* Close without the closed check: a later call goes on to close(r.done).
CloseUnguarded(t) ==
    /\ pc' = [pc EXCEPT ![t] = "c_closeDone"]
    /\ announceMutex' = Unlocked
    /\ UNCHANGED <<ret, closed, subs>>

\* if r.closed { return nil }: the mutex is still held when Close returns.
CloseAlreadyClosed(t) ==
    /\ pc' = [pc EXCEPT ![t] = "returned"]
    /\ ret' = [ret EXCEPT ![t] = Nil]
    /\ UNCHANGED <<announceMutex, closed, subs>>

\* r.closed = true; if r.topicSub != nil { r.topicSub.Cancel() }; Unlock()
CloseMarkClosed(t) ==
    /\ closed' = TRUE
    /\ subs' = IF topicSub # 0 THEN [subs EXCEPT ![topicSub] = "cancelled"] ELSE subs
    /\ announceMutex' = Unlocked
    /\ pc' = [pc EXCEPT ![t] = "c_closeDone"]
    /\ UNCHANGED ret

CloseCheck(t) ==
    /\ pc[t] = "c_locked"
    /\ IF closed THEN CloseAlreadyClosed(t) ELSE CloseMarkClosed(t)
    /\ UNCHANGED <<cfgVars, announceCache, cancelWatch, watchDone, done,
                   topicVars, topicSub, outChan, amsg, got, histVars>>

\* close(r.done)
CloseDone(t) ==
    /\ pc[t] = "c_closeDone"
    /\ done' = done + 1
    /\ pc' = [pc EXCEPT ![t] = "c_cancelWatch"]
    /\ UNCHANGED <<cfgVars, announceCache, announceMutex, closed, cancelWatch,
                   watchDone, topicVars, topicSub, outChan, subs, amsg, ret, got,
                   histVars>>

\* if r.cancelWatch != nil { r.cancelWatch() ...
CloseCancelWatch(t) ==
    /\ pc[t] = "c_cancelWatch"
    /\ cancelWatch' = IF cancelWatch # "nil" THEN "called" ELSE cancelWatch
    /\ pc' = [pc EXCEPT ![t] = "c_waitWatch"]
    /\ UNCHANGED <<cfgVars, announceCache, announceMutex, closed, watchDone, done,
                   topicVars, topicSub, outChan, subs, amsg, ret, got, histVars>>

\* Close closing whatever topic the receiver has, its own or a supplied one.
CloseFinishAnyTopic(t, err) ==
    /\ pc[t] = "c_waitWatch"
    /\ cancelWatch # "nil" => watchDone = "closed"
    /\ IF topic # "nil"
       THEN /\ topic' = "closed"
            /\ cancelPubsub' = IF cancelPubsub # "nil" THEN "called" ELSE cancelPubsub
            /\ UNCHANGED sender
       ELSE /\ err = Nil
            /\ UNCHANGED <<topic, cancelPubsub, sender>>
    /\ pc' = [pc EXCEPT ![t] = "returned"]
    /\ ret' = [ret EXCEPT ![t] = err]
    /\ UNCHANGED <<cfgVars, announceCache, announceMutex, closed, cancelWatch,
                   watchDone, done, topicSub, outChan, subs, amsg, got, histVars>>

\* ... <-r.watchDone }, then the topic or the sender is closed; err is what
\* topic.Close or sender.Close returned.
CloseFinish(t, err) ==
    /\ pc[t] = "c_waitWatch"
    /\ cancelWatch # "nil" => watchDone = "closed"
    /\ IF cancelPubsub # "nil"
       THEN /\ topic' = "closed"
            /\ cancelPubsub' = "called"
            /\ UNCHANGED sender
       ELSE IF sender # "nil"
       THEN /\ sender' = "closed"
            /\ UNCHANGED <<topic, cancelPubsub>>
       ELSE /\ err = Nil
            /\ UNCHANGED <<topic, cancelPubsub, sender>>
    /\ pc' = [pc EXCEPT ![t] = "returned"]
    /\ ret' = [ret EXCEPT ![t] = err]
    /\ UNCHANGED <<cfgVars, announceCache, announceMutex, closed, cancelWatch,
                   watchDone, done, topicSub, outChan, subs, amsg, got, histVars>>

(***************************************************************************)
(* UncacheCid                                                              *)
(***************************************************************************)
UncacheCall(t, cids) ==
    /\ pc[t] \in {"idle", "returned"}
    /\ \E c \in cids : amsg' = [amsg EXCEPT ![t] = [NoMsg EXCEPT !.Cid = c]]
    /\ pc' = [pc EXCEPT ![t] = "u_lock"]
    /\ UNCHANGED <<recvVars, subs, ret, got, histVars>>

UncacheLock(t) ==
    /\ pc[t] = "u_lock"
    /\ announceMutex = Unlocked
    /\ announceMutex' = t
    /\ pc' = [pc EXCEPT ![t] = "u_locked"]
    /\ UNCHANGED <<cfgVars, announceCache, closed, cancelWatch, watchDone, done,
                   topicVars, topicSub, outChan, subs, amsg, ret, got, histVars>>

\* UncacheCid leaving the CID in the cache.
UncacheCidKeeping(cache, cid) == cache

\* The cache UncacheCid leaves: r.announceCache.remove(adCid.String())
UncacheCid(cache, cid) == remove(cache, cid)

\* The critical section of UncacheCid, and its Unlock()
UncacheRemove(t) ==
    /\ pc[t] = "u_locked"
    /\ announceCache' = UncacheCid(announceCache, amsg[t].Cid)
    /\ announceMutex' = Unlocked
    /\ uncachedSince' = [c \in TrackedCids |->
                            uncachedSince[c] \/ (c = amsg[t].Cid /\ c \in tracked)]
    /\ uncachedSinceRecv' = [c \in TrackedCids |->
                                uncachedSinceRecv[c]
                                \/ (c = amsg[t].Cid /\ c \in tracked)]
    /\ amsg' = [amsg EXCEPT ![t] = NoMsg]
    /\ pc' = [pc EXCEPT ![t] = "returned"]
    /\ UNCHANGED <<cfgVars, closed, cancelWatch, watchDone, done, topicVars,
                   topicSub, outChan, subs, ret, got, tracked, traceCalls,
                   nDelivered, fresh, othersSince, seenSince, everAdmitted, windowPassed,
                   calledAfterClose, nextBlockedAtCall, lastIgnored, pendingAdmits>>

(***************************************************************************)
(* handleAnnounce, run by a Direct caller or by the watcher                *)
(***************************************************************************)
\* The context handleAnnounce runs under is cancelled: the watcher's is
\* watchCtx; a Direct caller's context may be cancelled at any moment.
CtxCancelled(t) == IF t = Watcher THEN cancelWatch = "called" ELSE TRUE

\* handleAnnounce never asked to republish.
ResendNever(t) == FALSE

\* handleAnnounce always asked to republish, by watch too and whatever the
\* receiver's resend flag.
ResendAlways(t) == TRUE

\* The resend argument: Direct passes r.resend, watch passes false.
ResendArg(t) == IF t = Watcher THEN FALSE ELSE resend

\* handleAnnounce returns err to its caller.  Direct returns it (amsg keeps
\* the arguments of the call until the caller's next call); watch
\* breaks out of its loop on ErrClosed or context.Canceled, closing
\* watchDone, and reads the next message otherwise.
HandleReturn(t, err, msg) ==
    /\ amsg' = [amsg EXCEPT ![t] = IF t = Watcher THEN NoMsg ELSE msg]
    /\ IF t = Watcher
       THEN IF err \in {ErrClosed, CtxErr}
            THEN /\ pc' = [pc EXCEPT ![t] = "w_exited"]
                 /\ watchDone' = "closed"
                 /\ ret' = [ret EXCEPT ![t] = err]
            ELSE /\ pc' = [pc EXCEPT ![t] = "w_read"]
                 /\ UNCHANGED <<watchDone, ret>>
       ELSE /\ pc' = [pc EXCEPT ![t] = "returned"]
            /\ ret' = [ret EXCEPT ![t] = err]
            /\ UNCHANGED watchDone

\* handleAnnounce logging every announceCheck error, ErrClosed too.
handleCheckErrSwallowed(err) == Nil

\* handleAnnounce returning every announceCheck error to its caller.
handleCheckErrReturned(err) == err

\* if err != nil { if err == ErrClosed { return err }; ...; return nil }
handleCheckErr(err) == IF err = ErrClosed THEN err ELSE Nil

\* announceCheck, first statement: the peer-allow callback.  Run as part of
\* the step that produced msg; a rejected announcement makes handleAnnounce
\* return nil at once.
HandleBegin(t, msg) ==
    IF SourceNotAllowed(msg.PeerID)
    THEN HandleReturn(t, handleCheckErr(errSourceNotAllowed), msg)
    ELSE /\ amsg' = [amsg EXCEPT
                       ![t] = [msg EXCEPT !.by = IF traceCalls THEN t ELSE @]]
         /\ pc' = [pc EXCEPT ![t] = "h_lock"]
         /\ ret' = [ret EXCEPT ![t] = Pending]
         /\ UNCHANGED watchDone

\* r.announceMutex.Lock() in announceCheck
AnnounceLock(t) ==
    /\ pc[t] = "h_lock"
    /\ announceMutex = Unlocked
    /\ announceMutex' = t
    /\ pc' = [pc EXCEPT ![t] = "h_locked"]
    /\ UNCHANGED <<cfgVars, announceCache, closed, cancelWatch, watchDone, done,
                   topicVars, topicSub, outChan, subs, amsg, ret, got, histVars>>

\* announceCheck without its closed check.
announceCheckIgnoringClosed(cid) ==
    LET u == update(announceCache, announceCacheSize, cid)
    IN  [err |-> IF u.found THEN errAlreadySeenCid ELSE Nil, cache |-> u.cache]

\* announceCheck admitting a CID whether or not the cache holds it.
announceCheckAdmittingRepeats(cid) ==
    IF closed
    THEN [err |-> ErrClosed, cache |-> announceCache]
    ELSE [err |-> Nil, cache |-> update(announceCache, announceCacheSize, cid).cache]

\* announceCheck on a cache whose update leaves a key it finds where it is.
announceCheckNotPromoting(cid) ==
    IF closed
    THEN [err |-> ErrClosed, cache |-> announceCache]
    ELSE IF Contains(announceCache, cid)
    THEN [err |-> errAlreadySeenCid, cache |-> announceCache]
    ELSE [err |-> Nil,
          cache |-> update(announceCache, announceCacheSize, cid).cache]

\* announceCheck on a cache that holds one key more than announceCacheSize.
announceCheckOversized(cid) ==
    IF closed
    THEN [err |-> ErrClosed, cache |-> announceCache]
    ELSE LET u == update(announceCache, announceCacheSize + 1, cid)
         IN  [err |-> IF u.found THEN errAlreadySeenCid ELSE Nil,
              cache |-> u.cache]

\* announceCheck on a cache that holds one key fewer than announceCacheSize.
announceCheckUndersized(cid) ==
    IF closed
    THEN [err |-> ErrClosed, cache |-> announceCache]
    ELSE LET u == update(announceCache, announceCacheSize - 1, cid)
         IN  [err |-> IF u.found THEN errAlreadySeenCid ELSE Nil,
              cache |-> u.cache]

\* What announceCheck returns under the mutex, and the cache it leaves.
announceCheck(cid) ==
    IF closed
    THEN [err |-> ErrClosed, cache |-> announceCache]
    ELSE LET u == update(announceCache, announceCacheSize, cid)
         IN  [err |-> IF u.found THEN errAlreadySeenCid ELSE Nil,
              cache |-> u.cache]

\* History kept at an announceCheck that reached the cache for CID cid.
NoteAnnounce(cid, admitted) ==
    /\ uncachedSince' = [c \in TrackedCids |->
                            uncachedSince[c] /\ ~(admitted /\ c = cid)]
    /\ othersSince' = [c \in TrackedCids |->
                          IF c \notin tracked \/ c = cid THEN {}
                          ELSE IF admitted THEN othersSince[c] \cup {cid}
                          ELSE othersSince[c]]
    /\ seenSince' = [c \in TrackedCids |->
                        IF c \notin tracked \/ c = cid THEN {}
                        ELSE seenSince[c] \cup {cid}]
    /\ everAdmitted' = [c \in TrackedCids |->
                           everAdmitted[c] \/ (admitted /\ c = cid /\ c \in tracked)]
    /\ windowPassed' = [c \in TrackedCids |->
                           IF admitted /\ c = cid /\ c \in tracked
                           THEN Cardinality(othersSince[c]) >= announceCacheSize
                           ELSE windowPassed[c]]

\* The rest of announceCheck (closed check, cache update, deferred Unlock)
\* and handleAnnounce up to the republish: the error cases return, an
\* admitted announcement has its addresses filtered.
AnnounceCheck(t) ==
    /\ pc[t] = "h_locked"
    /\ LET chk == announceCheck(amsg[t].Cid) IN
       /\ announceCache' = chk.cache
       /\ announceMutex' = Unlocked
       /\ IF chk.err = ErrClosed
          THEN /\ HandleReturn(t, handleCheckErr(chk.err), amsg[t])
               /\ UNCHANGED <<uncachedSince, othersSince, seenSince, everAdmitted,
                              windowPassed>>
          ELSE IF chk.err # Nil
          THEN /\ HandleReturn(t, handleCheckErr(chk.err), amsg[t])
               /\ NoteAnnounce(amsg[t].Cid, FALSE)
          ELSE /\ amsg' = [amsg EXCEPT
                             ![t].Addrs = IF filterIPs THEN FilterPublic(@) ELSE @]
               /\ pc' = [pc EXCEPT ![t] =
                           IF ResendArg(t) THEN "h_republish" ELSE "h_send"]
               /\ NoteAnnounce(amsg[t].Cid, TRUE)
               /\ UNCHANGED <<watchDone, ret>>
    /\ pendingAdmits' = IF traceCalls /\ announceCheck(amsg[t].Cid).err = Nil
                        THEN Append(pendingAdmits, <<amsg[t].Cid, t>>)
                        ELSE pendingAdmits
    /\ UNCHANGED <<cfgVars, closed, cancelWatch, done, topicVars, topicSub,
                   outChan, subs, got, tracked, traceCalls, nDelivered, fresh,
                   uncachedSinceRecv, calledAfterClose, nextBlockedAtCall,
                   lastIgnored>>

\* handleAnnounce returning the error of r.republish to its caller.
republishErrReturned(err) == err

\* if err != nil { log.Errorw(...) } else { log.Infow(...) }: what
\* handleAnnounce makes of the error of r.republish; Nil lets it go on.
republishErr(err) == Nil

\* if resend { err = r.republish(ctx, amsg) ... }: r.sender.Send succeeds
\* or fails; resendErr keeps its error.
Republish(t) ==
    /\ pc[t] = "h_republish"
    /\ \E err \in {Nil, SendErr} :
          LET msg == [amsg[t] EXCEPT !.sent = TRUE, !.resendErr = err] IN
          IF republishErr(err) = Nil
          THEN /\ amsg' = [amsg EXCEPT ![t] = msg]
               /\ pc' = [pc EXCEPT ![t] = "h_send"]
               /\ UNCHANGED <<ret, watchDone>>
          ELSE HandleReturn(t, republishErr(err), msg)
    /\ UNCHANGED <<cfgVars, announceCache, announceMutex, closed, cancelWatch,
                   done, topicVars, topicSub, outChan, subs, got, histVars>>

\* A channel whose send is always ready.
SendAlwaysReady(ch) == TRUE

\* The send r.outChan <- amsg is ready: the buffer of
\* make(chan Announce, 1) has room.
SendReady(ch) == Len(ch) < 1

\* select { case r.outChan <- amsg:
SendOut(t) ==
    /\ pc[t] = "h_send"
    /\ SendReady(outChan)
    /\ outChan' = Append(outChan, amsg[t])
    /\ HandleReturn(t, Nil, amsg[t])
    /\ UNCHANGED <<cfgVars, announceCache, announceMutex, closed, cancelWatch,
                   done, topicVars, topicSub, subs, got, histVars>>

\* pendingAdmits without its first entry e (the oldest such announcement).
Taken(q, e) ==
    IF \E i \in 1..Len(q) : q[i] = e
    THEN LET k == CHOOSE i \in 1..Len(q) :
                     q[i] = e /\ \A j \in 1..(i - 1) : q[j] # e
         IN  SubSeq(q, 1, k - 1) \o SubSeq(q, k + 1, Len(q))
    ELSE q

\* pendingAdmits without its last entry e (the announcement its sender
\* is still trying to send).
GiveUp(q, e) ==
    IF \E i \in 1..Len(q) : q[i] = e
    THEN LET k == CHOOSE i \in 1..Len(q) :
                     q[i] = e /\ \A j \in (i + 1)..Len(q) : q[j] # e
         IN  SubSeq(q, 1, k - 1) \o SubSeq(q, k + 1, Len(q))
    ELSE q

\* case <-r.done: return ErrClosed
SendClosed(t) ==
    /\ pc[t] = "h_send"
    /\ done > 0
    /\ HandleReturn(t, ErrClosed, amsg[t])
    /\ pendingAdmits' = GiveUp(pendingAdmits, <<amsg[t].Cid, t>>)
    /\ UNCHANGED <<cfgVars, announceCache, announceMutex, closed, cancelWatch,
                   done, topicVars, topicSub, outChan, subs, got, tracked, traceCalls, nDelivered,
                   fresh, uncachedSince, othersSince, seenSince, everAdmitted,
                   windowPassed, uncachedSinceRecv, calledAfterClose,
                   nextBlockedAtCall, lastIgnored>>

\* case <-ctx.Done(): return ctx.Err() }
SendCtx(t) ==
    /\ pc[t] = "h_send"
    /\ CtxCancelled(t)
    /\ HandleReturn(t, CtxErr, amsg[t])
    /\ pendingAdmits' = GiveUp(pendingAdmits, <<amsg[t].Cid, t>>)
    /\ UNCHANGED <<cfgVars, announceCache, announceMutex, closed, cancelWatch,
                   done, topicVars, topicSub, outChan, subs, got, tracked, traceCalls, nDelivered,
                   fresh, uncachedSince, othersSince, seenSince, everAdmitted,
                   windowPassed, uncachedSinceRecv, calledAfterClose,
                   nextBlockedAtCall, lastIgnored>>

(***************************************************************************)
(* Direct                                                                  *)
(***************************************************************************)
DirectCall(t, cids, peers, addrLists) ==
    /\ pc[t] \in {"idle", "returned"}
    /\ \E c \in cids, p \in peers, a \in addrLists :
          /\ HandleBegin(t, [NoMsg EXCEPT !.Cid = c, !.PeerID = p, !.Addrs = a,
                                          !.via = "direct", !.announced = a])
          /\ fresh' = IF c > fresh THEN c ELSE fresh
    /\ calledAfterClose' = [calledAfterClose EXCEPT ![t] = SomeCloseReturned]
    /\ UNCHANGED <<cfgVars, announceCache, announceMutex, closed, cancelWatch,
                   done, topicVars, topicSub, outChan, subs, got, tracked,
                   traceCalls, nDelivered, uncachedSince, othersSince,
                   seenSince, everAdmitted, windowPassed, uncachedSinceRecv,
                   nextBlockedAtCall, lastIgnored, pendingAdmits>>

(***************************************************************************)
(* Next                                                                    *)
(***************************************************************************)
NextCall(t) ==
    /\ pc[t] \in {"idle", "returned"}
    /\ pc' = [pc EXCEPT ![t] = "n_wait"]
    /\ ret' = [ret EXCEPT ![t] = Pending]
    /\ got' = [got EXCEPT ![t] = NoMsg]
    /\ calledAfterClose' = [calledAfterClose EXCEPT ![t] = SomeCloseReturned]
    /\ UNCHANGED <<recvVars, subs, amsg, tracked, traceCalls, nDelivered, fresh,
                   uncachedSince, othersSince, seenSince, everAdmitted, windowPassed,
                   uncachedSinceRecv, nextBlockedAtCall, lastIgnored, pendingAdmits>>

\* A receive that leaves the announcement in the channel.
Peeked(ch) == ch

\* The channel after a receive took its oldest announcement.
Dequeued(ch) == Tail(ch)

\* case amsg := <-r.outChan: return amsg, nil
NextRecv(t) ==
    /\ pc[t] = "n_wait"
    /\ Len(outChan) > 0
    /\ outChan' = Dequeued(outChan)
    /\ got' = [got EXCEPT ![t] = Head(outChan)]
    /\ ret' = [ret EXCEPT ![t] = Nil]
    /\ pc' = [pc EXCEPT ![t] = "returned"]
    /\ nDelivered' = [c \in TrackedCids |->
                         IF c = Head(outChan).Cid /\ c \in tracked
                            /\ nDelivered[c] < MaxCount
                         THEN nDelivered[c] + 1
                         ELSE nDelivered[c]]
    /\ uncachedSinceRecv' = [c \in TrackedCids |->
                                uncachedSinceRecv[c] /\ c # Head(outChan).Cid]
    /\ pendingAdmits' = Taken(pendingAdmits,
                               <<Head(outChan).Cid, Head(outChan).by>>)
    /\ UNCHANGED <<cfgVars, announceCache, announceMutex, closed, cancelWatch,
                   watchDone, done, topicVars, topicSub, subs, amsg, tracked,
                   traceCalls, fresh, uncachedSince, othersSince, seenSince, everAdmitted,
                   windowPassed, calledAfterClose,
                   nextBlockedAtCall, lastIgnored>>

\* case <-r.done: return Announce{}, ErrClosed
NextClosed(t) ==
    /\ pc[t] = "n_wait"
    /\ done > 0
    /\ ret' = [ret EXCEPT ![t] = ErrClosed]
    /\ pc' = [pc EXCEPT ![t] = "returned"]
    /\ UNCHANGED <<recvVars, subs, amsg, got, histVars>>

\* case <-ctx.Done(): return Announce{}, ctx.Err()
NextCtx(t) ==
    /\ pc[t] = "n_wait"
    /\ ret' = [ret EXCEPT ![t] = CtxErr]
    /\ pc' = [pc EXCEPT ![t] = "returned"]
    /\ UNCHANGED <<recvVars, subs, amsg, got, histVars>>

(***************************************************************************)
(* watch                                                                   *)
(***************************************************************************)
\* A pubsub message as watch sees it: From, the decoded message's OrigPeer
\* ("" when absent, "bad" when peer.Decode rejects it), Cid and Addrs; ok is
\* false when msg.From, the CBOR body or the addresses do not decode.
NoOrig == ""
BadPeer == "bad"
GossipMsgs(froms, origs, cids, addrLists, oks) ==
    [From : froms, OrigPeer : origs, Cid : cids, Addrs : addrLists, ok : oks]

\* watch taking the original publisher of every republished message, its
\* own republished announces included.
WatchOriginOfAnyRelay(m) ==
    IF m.OrigPeer # NoOrig
    THEN IF m.OrigPeer = BadPeer THEN "badOrigPeer" ELSE m.OrigPeer
    ELSE m.From

\* watch taking the transport sender as the origin of every message.
WatchOriginIsSender(m) == m.From

\* The origin watch takes for a decoded message: the peer ID put into the
\* Announce, or the reason the message is ignored (a republished announce
\* from this host, an OrigPeer that peer.Decode rejects).
SkipReasons == {"self", "badOrigPeer"}
WatchOrigin(m) ==
    IF m.OrigPeer # NoOrig
    THEN IF m.From = hostID THEN "self"
         ELSE IF m.OrigPeer = BadPeer THEN "badOrigPeer"
         ELSE m.OrigPeer
    ELSE m.From

\* msg, err := r.topicSub.Next(ctx) returned a message; watch decodes it and
\* calls handleAnnounce(ctx, amsg, false).
WatchMessage(m) ==
    /\ pc[Watcher] = "w_read"
    /\ topicSub # 0
    /\ subs[topicSub] = "open"
    /\ cancelWatch # "called"
    /\ IF ~m.ok \/ WatchOrigin(m) \in SkipReasons
       THEN /\ lastIgnored' = IF ~m.ok THEN "undecodable" ELSE WatchOrigin(m)
            /\ UNCHANGED <<pc, amsg, ret, watchDone, fresh>>
       ELSE /\ UNCHANGED lastIgnored
            /\ HandleBegin(Watcher,
                  [NoMsg EXCEPT !.Cid = m.Cid, !.PeerID = WatchOrigin(m),
                                !.Addrs = m.Addrs, !.via = "gossip",
                                !.from = m.From, !.orig = m.OrigPeer,
                                !.announced = m.Addrs])
            /\ fresh' = IF m.Cid > fresh THEN m.Cid ELSE fresh
    /\ UNCHANGED <<cfgVars, announceCache, announceMutex, closed, cancelWatch,
                   done, topicVars, topicSub, outChan, subs, got, tracked,
                   traceCalls, nDelivered, uncachedSince, othersSince,
                   seenSince, everAdmitted, windowPassed, uncachedSinceRecv,
                   calledAfterClose, nextBlockedAtCall, pendingAdmits>>

\* topicSub.Next returned context.Canceled or pubsub.ErrSubscriptionCancelled:
\* break; close(r.watchDone).
WatchStopped ==
    /\ pc[Watcher] = "w_read"
    /\ topicSub # 0
    /\ cancelWatch = "called" \/ subs[topicSub] = "cancelled"
    /\ pc' = [pc EXCEPT ![Watcher] = "w_exited"]
    /\ watchDone' = "closed"
    /\ UNCHANGED <<cfgVars, announceCache, announceMutex, closed, cancelWatch,
                   done, topicVars, topicSub, outChan, subs, amsg, ret, got,
                   histVars>>

\* topicSub.Next returned another error: restart the subscription.
WatchReadError ==
    /\ pc[Watcher] = "w_read"
    /\ topicSub # 0
    /\ Len(subs) <= MaxRestarts
    /\ pc' = [pc EXCEPT ![Watcher] = "w_relock"]
    /\ UNCHANGED <<recvVars, subs, amsg, ret, got, histVars>>

WatchRestartLock ==
    /\ pc[Watcher] = "w_relock"
    /\ announceMutex = Unlocked
    /\ announceMutex' = Watcher
    /\ pc' = [pc EXCEPT ![Watcher] = "w_relocked"]
    /\ UNCHANGED <<cfgVars, announceCache, closed, cancelWatch, watchDone, done,
                   topicVars, topicSub, outChan, subs, amsg, ret, got, histVars>>

\* watch leaving its loop on every read error, without subscribing again.
WatchRestartGivingUp(ok) ==
    /\ pc[Watcher] = "w_relocked"
    /\ announceMutex' = Unlocked
    /\ pc' = [pc EXCEPT ![Watcher] = "w_exited"]
    /\ watchDone' = "closed"
    /\ UNCHANGED <<cfgVars, announceCache, closed, cancelWatch, done, topicVars,
                   topicSub, subs, outChan, amsg, ret, got, histVars>>

\* r.topicSub.Cancel(); r.topicSub, err = r.topic.Subscribe(); Unlock();
\* a failed Subscribe leaves topicSub nil and ends the watcher.
WatchRestart(ok) ==
    /\ pc[Watcher] = "w_relocked"
    /\ announceMutex' = Unlocked
    /\ IF ok
       THEN /\ subs' = Append([subs EXCEPT ![topicSub] = "cancelled"], "open")
            /\ topicSub' = Len(subs) + 1
            /\ pc' = [pc EXCEPT ![Watcher] = "w_read"]
            /\ UNCHANGED watchDone
       ELSE /\ subs' = [subs EXCEPT ![topicSub] = "cancelled"]
            /\ topicSub' = 0
            /\ pc' = [pc EXCEPT ![Watcher] = "w_exited"]
            /\ watchDone' = "closed"
    /\ UNCHANGED <<cfgVars, announceCache, closed, cancelWatch, done, topicVars,
                   outChan, amsg, ret, got, histVars>>

(***************************************************************************)
(* The steps of each kind of task.                                         *)
(***************************************************************************)
CloseStep(t) ==
    \/ CloseCall(t)
    \/ CloseLock(t)
    \/ CloseCheck(t)
    \/ CloseDone(t)
    \/ CloseCancelWatch(t)
    \/ \E err \in {Nil, CloseErr} : CloseFinish(t, err)

UncacheStep(t, cids) ==
    \/ UncacheCall(t, cids)
    \/ UncacheLock(t)
    \/ UncacheRemove(t)

\* handleAnnounce after the peer-allow check, when resend is false.
HandleStep(t) ==
    \/ AnnounceLock(t)
    \/ AnnounceCheck(t)
    \/ SendOut(t)
    \/ SendClosed(t)
    \/ SendCtx(t)

NextStep(t) ==
    \/ NextCall(t)
    \/ NextRecv(t)
    \/ NextClosed(t)
    \/ NextCtx(t)

\* watch reading its subscription.
WatchStep(msgs) ==
    \/ \E m \in msgs : WatchMessage(m)
    \/ WatchStopped

\* watch restarting its subscription after a read error.
WatchRestartStep ==
    \/ WatchReadError
    \/ WatchRestartLock
    \/ \E ok \in BOOLEAN : WatchRestart(ok)

\* The predicate of the configurations that set one: it rejects Q only.
AllowHP == {"H", "P"}

(***************************************************************************)
(* Spec: shutdown.  Two Close callers race with the watcher, a Direct      *)
(* caller, a Next caller and an UncacheCid caller, all on one CID.         *)
(***************************************************************************)
Configs ==
    [host : {TRUE}, topicName : {TRUE}, optTopic : {TRUE},
     allowPeer : {AllowHP}, filterIPs : {FALSE}, resend : {FALSE}]

Init == \E cfg \in Configs : NewReceiver(cfg, {}, FALSE)

PlainMsgs == GossipMsgs({"P"}, {NoOrig}, {1}, {DefaultAddrs}, {TRUE})

Next ==
    \/ \E t \in Closers : CloseStep(t)
    \/ UncacheStep("u1", {1})
    \/ DirectCall("d1", {1}, {"P", "Q"}, {DefaultAddrs})
    \/ \E t \in {"d1", Watcher} : HandleStep(t)
    \/ NextStep("n1")
    \/ WatchStep(PlainMsgs)
    \/ WatchRestartStep

Spec == Init /\ [][Next]_vars

(***************************************************************************)
(* FairUnblock: a Next caller blocks on an idle receiver (no announcement  *)
(* arrives, its context is never cancelled) while two Close callers and    *)
(* the watcher, which may restart its subscription, run.  Closing the      *)
(* topic succeeds.  Every task that can take a step eventually takes one,  *)
(* and sync.Mutex hands the lock to every waiter (starvation mode).        *)
(***************************************************************************)
InitUnblock == \E cfg \in Configs : NewReceiver(cfg, {}, TRUE)

NextUnblock ==
    \/ \E t \in Closers :
          \/ CloseCall(t)
          \/ CloseLock(t)
          \/ CloseCheck(t)
          \/ CloseDone(t)
          \/ CloseCancelWatch(t)
          \/ CloseFinish(t, Nil)
    \/ NextCall("n1")
    \/ NextClosed("n1")
    \/ WatchStopped
    \/ WatchRestartStep

FairUnblock ==
    /\ InitUnblock
    /\ [][NextUnblock]_vars
    /\ \A t \in Closers :
          /\ SF_vars(CloseLock(t))
          /\ WF_vars(CloseCheck(t) \/ CloseDone(t) \/ CloseCancelWatch(t)
                     \/ CloseFinish(t, Nil))
    /\ WF_vars(NextClosed("n1"))
    /\ WF_vars(WatchStopped)
    /\ SF_vars(WatchRestartLock)
    /\ WF_vars(\E ok \in BOOLEAN : WatchRestart(ok))

\* C3: a Next call that is blocked when Close is called from another task
\* eventually returns ErrClosed, and that Close call eventually returns nil.
C3_BlockedNextUnblocked ==
    \A c \in Closers :
        nextBlockedAtCall[c] ~>
            /\ pc[c] = "returned"
            /\ ret[c] = Nil
            /\ pc["n1"] = "returned"
            /\ ret["n1"] = ErrClosed

(***************************************************************************)
(* Properties of shutdown (checked under Spec).                            *)
(***************************************************************************)
\* The task waits in announceMutex.Lock().
WaitsForMutex(t) == pc[t] \in {"c_lock", "u_lock", "h_lock", "w_relock"}

\* The mutex is held by a Close call that has returned: nothing unlocks it.
MutexLeaked == announceMutex \in Closers /\ pc[announceMutex] = "returned"

\* An announcement that passed announceCheck and is not yet in outChan.
InFlight(t) == pc[t] \in {"h_republish", "h_send"}

\* C1: after Close has completed once, every later Close call returns nil
\* and changes no receiver state: none of its steps changes the closed flag,
\* the dedup set, done or watchDone, and when it returns it does not own the
\* state lock (it did not own it when it was called).
C1_LaterCloseIsNoOp ==
    [][\A c \in Closers :
          (calledAfterClose[c] /\ pc'[c] # pc[c]) =>
             /\ closed' = closed
             /\ announceCache' = announceCache
             /\ done' = done
             /\ watchDone' = watchDone
             /\ pc'[c] = "returned" => (ret'[c] = Nil /\ announceMutex' # c)]_vars

\* C2: Close is safe to call concurrently with itself and every other task:
\* no task is left waiting for the state lock while the lock is owned by a
\* call that has returned (such a wait never ends, and a Close waiting for
\* that task never returns).
C2_NoTaskBlockedForever ==
    ~(MutexLeaked /\ \E t \in Tasks : WaitsForMutex(t))

\* C4 as claimed: a Next call that starts after Close has returned never
\* yields an announcement.
C4_NoAnnouncementAfterClose ==
    \A n \in Nexters :
        (calledAfterClose[n] /\ pc[n] = "returned") => ret[n] # Nil

\* C4 amended: once the receiver is marked closed no announcement passes
\* admission any more, and a Next call that starts after Close has returned
\* returns ErrClosed, its context's error, or the announcement queued in
\* outChan (one admitted before the receiver was marked closed).
C4_OnlyEarlierAdmissionsAfterClose ==
    [][/\ closed => \A t \in Directs \cup {Watcher} : InFlight(t)' => InFlight(t)
       /\ \A n \in Nexters :
            (calledAfterClose[n] /\ pc[n] = "n_wait" /\ pc'[n] = "returned") =>
               \/ ret'[n] \in {ErrClosed, CtxErr}
               \/ /\ ret'[n] = Nil
                  /\ closed
                  /\ outChan # <<>>
                  /\ got'[n] = Head(outChan)]_vars

\* A Next call that started after Close had returned yielded an announcement.
C4_Witness ==
    \E n \in Nexters :
        /\ calledAfterClose[n]
        /\ pc[n] = "returned"
        /\ ret[n] = Nil
        /\ got[n].Cid = 1

\* C5 as claimed: a Direct call that starts after Close has returned never
\* returns nil, whatever its peer ID and CID.
C5_DirectAfterCloseNeverNil ==
    \A d \in Directs :
        (calledAfterClose[d] /\ pc[d] = "returned") => ret[d] # Nil

\* C5 amended: a Direct call that starts after Close has returned returns
\* ErrClosed or its context's error for every peer ID the peer-allow
\* predicate accepts and every CID, cached or not; for a peer ID the
\* predicate rejects it returns nil.
C5_DirectAfterClose ==
    \A d \in Directs :
        (calledAfterClose[d] /\ pc[d] = "returned") =>
            IF SourceNotAllowed(amsg[d].PeerID)
            THEN ret[d] = Nil
            ELSE ret[d] \in {ErrClosed, CtxErr}

\* A Direct call with an accepted peer and a cached CID, started after Close
\* had returned, returned ErrClosed.
C5_Witness ==
    \E d \in Directs :
        /\ calledAfterClose[d]
        /\ pc[d] = "returned"
        /\ ret[d] = ErrClosed
        /\ ~SourceNotAllowed(amsg[d].PeerID)
        /\ Contains(announceCache, amsg[d].Cid)

(***************************************************************************)
(* SpecGossip: the watcher reads direct and republished gossip messages,   *)
(* relayed by this host (H) or by P, with no OrigPeer or with OrigPeer H,  *)
(* Q or an undecodable one; a Next caller consumes what is admitted, an    *)
(* UncacheCid caller lets the CID through again and Close ends the run.    *)
(* There is no peer-allow predicate.                                       *)
(***************************************************************************)
GossipConfigs ==
    [host : {TRUE}, topicName : {TRUE}, optTopic : {TRUE},
     allowPeer : {NilFunc}, filterIPs : {FALSE}, resend : {FALSE}]

InitGossip == \E cfg \in GossipConfigs : NewReceiver(cfg, {}, FALSE)

RelayMsgs ==
    GossipMsgs({"H", "P"}, {NoOrig, "H", "Q", BadPeer}, {1}, {DefaultAddrs},
               BOOLEAN)

NextGossip ==
    \/ CloseStep("c1")
    \/ UncacheStep("u1", {1})
    \/ HandleStep(Watcher)
    \/ NextStep("n1")
    \/ WatchStep(RelayMsgs)

SpecGossip == InitGossip /\ [][NextGossip]_vars

\* C6 as claimed: no announcement from a gossip message whose OrigPeer is
\* this receiver's own host id is ever delivered to Next, whatever the
\* message's From peer is.
C6_NoOwnOrigPeerDelivered ==
    \A n \in Nexters :
        got[n].via = "gossip" => got[n].orig # hostID

\* C6 amended: no announcement from a gossip message that carries an
\* OrigPeer and whose From peer is this receiver's own host id is ever
\* delivered to Next, whatever its OrigPeer is.
C6_NoRepublishFromSelfDelivered ==
    \A n \in Nexters :
        (got[n].via = "gossip" /\ got[n].orig # NoOrig) => got[n].from # hostID

\* The watcher ignored a republished announce relayed by this host, and Next
\* returned one whose OrigPeer is this host, relayed by another peer.
C6_Witness ==
    /\ lastIgnored = "self"
    /\ \E n \in Nexters :
          /\ pc[n] = "returned"
          /\ ret[n] = Nil
          /\ got[n].via = "gossip"
          /\ got[n].orig = hostID
          /\ got[n].from # hostID

(***************************************************************************)
(* Properties of the dedup set.  They speak of the announceCheck step of a *)
(* Direct caller: t holds the mutex and is about to consult the cache.     *)
(***************************************************************************)
\* t completes announceCheck in this step, on an open receiver, for a
\* tracked CID that was admitted before.
Reannounces(t) ==
    /\ pc[t] = "h_locked"
    /\ pc'[t] # "h_locked"
    /\ ~closed
    /\ amsg[t].Cid \in tracked
    /\ everAdmitted[amsg[t].Cid]

\* The step admits t's announcement: it goes on towards outChan.
AdmittedNow(t) == InFlight(t)'

\* The step drops t's announcement: Direct returns nil, nothing is queued.
DroppedNow(t) ==
    /\ pc'[t] = "returned"
    /\ ret'[t] = Nil
    /\ outChan' = outChan

\* Next returns cid in this step, having returned it before.
DeliversAgain(n, cid) ==
    /\ pc[n] = "n_wait"
    /\ pc'[n] = "returned"
    /\ ret'[n] = Nil
    /\ got'[n].Cid = cid
    /\ nDelivered[cid] >= 1

(***************************************************************************)
(* SpecDedup: two Direct callers announce CIDs 1 and 2 over and over, an   *)
(* UncacheCid caller removes them, a Next caller consumes.  The receiver   *)
(* stays open and no Direct context is cancelled.                          *)
(***************************************************************************)
InitDedup == \E cfg \in GossipConfigs : NewReceiver(cfg, {1, 2}, FALSE)

NextDedup ==
    \/ \E t \in Directs : DirectCall(t, {1, 2}, {"P"}, {DefaultAddrs})
    \/ \E t \in Directs : AnnounceLock(t)
    \/ \E t \in Directs : AnnounceCheck(t)
    \/ \E t \in Directs : SendOut(t)
    \/ UncacheStep("u1", {1, 2})
    \/ NextCall("n1")
    \/ NextRecv("n1")
    \/ NextCtx("n1")

SpecDedup == InitDedup /\ [][NextDedup]_vars

\* C7: for a CID c that was admitted before and has not been pushed out of
\* the dedup set (fewer than announceCacheSize other CIDs reached the set
\* since c was last announced), a re-announcement of c is dropped when
\* UncacheCid(c) did not run since c was last admitted, and is admitted
\* (sent on to Next) when it did.
C7_ReannouncementAndUncache ==
    [][\A t \in Directs :
          (Reannounces(t)
           /\ Cardinality(seenSince[amsg[t].Cid]) < announceCacheSize) =>
              IF uncachedSince[amsg[t].Cid] THEN AdmittedNow(t) ELSE DroppedNow(t)]_vars

\* CID 1 was delivered, re-announced and dropped, uncached, announced again
\* and delivered a second time.
C7_Witness ==
    /\ nDelivered[1] = 2
    /\ \E d \in Directs :
          /\ pc[d] = "returned"
          /\ ret[d] = Nil
          /\ amsg[d].Cid = 1
          /\ Contains(announceCache, 1)
    /\ ~uncachedSince[1]
    /\ outChan = <<>>

(***************************************************************************)
(* FairPair: two Direct callers each announce (CID 1, peer P) once, at the *)
(* same time; two Next callers keep calling Next, and their contexts may   *)
(* expire at any moment.  Both Direct calls are made and run on, and a     *)
(* Next call that finds an announcement queued while its context lives     *)
(* takes it.                                                               *)
(***************************************************************************)
DirectOnce(t) == pc[t] = "idle" /\ DirectCall(t, {1}, {"P"}, {DefaultAddrs})

InitPair == \E cfg \in GossipConfigs : NewReceiver(cfg, {1}, FALSE)

NextPair ==
    \/ \E t \in Directs : DirectOnce(t)
    \/ \E t \in Directs : AnnounceLock(t)
    \/ \E t \in Directs : AnnounceCheck(t)
    \/ \E t \in Directs : SendOut(t)
    \/ \E n \in Nexters : NextCall(n)
    \/ \E n \in Nexters : NextRecv(n)
    \/ \E n \in Nexters : NextCtx(n)

FairPair ==
    /\ InitPair
    /\ [][NextPair]_vars
    /\ \A t \in Directs :
          /\ WF_vars(DirectOnce(t))
          /\ SF_vars(AnnounceLock(t))
          /\ WF_vars(AnnounceCheck(t))
          /\ SF_vars(SendOut(t))
    /\ \A n \in Nexters :
          /\ WF_vars(NextCall(n))
          /\ SF_vars(NextRecv(n))

\* C9: when two Direct calls with the same CID run concurrently on an open
\* receiver without a peer-allow predicate, exactly one announcement with
\* that CID is delivered to Next (never two, and eventually one, carrying
\* the values of the calls), and a Next call returning after that delivery
\* returns its context's error.
C9_ExactlyOneDelivered ==
    /\ [](nDelivered[1] <= 1)
    /\ <>(nDelivered[1] = 1)
    /\ [](\A n \in Nexters :
            (pc[n] = "returned" /\ ret[n] = Nil) =>
                /\ got[n].Cid = 1
                /\ got[n].PeerID = "P"
                /\ got[n].Addrs = DefaultAddrs)
    /\ [][\A n \in Nexters :
            (nDelivered[1] = 1 /\ pc[n] = "n_wait" /\ pc'[n] = "returned") =>
                ret'[n] = CtxErr]_vars

\* Both Direct calls returned nil, one announcement was delivered, and a
\* further Next returned its context's error.
C9_Witness ==
    /\ \A d \in Directs : pc[d] = "returned" /\ ret[d] = Nil
    /\ nDelivered[1] = 1
    /\ outChan = <<>>
    /\ \E n, m \in Nexters :
          /\ pc[n] = "returned" /\ ret[n] = Nil /\ got[n].Cid = 1
          /\ pc[m] = "returned" /\ ret[m] = CtxErr

(***************************************************************************)
(* SpecLRU: a Direct caller announces CID 1, the newest CID again or a CID *)
(* never announced before, until MaxCid CIDs are used up; a Next caller    *)
(* consumes.  The cache has its real capacity.                             *)
(***************************************************************************)
InitLRU == \E cfg \in GossipConfigs : NewReceiver(cfg, {1}, FALSE)

StreamCids == {c \in {1, fresh, fresh + 1} : c <= MaxCid}

NextLRU ==
    \/ DirectCall("d1", StreamCids, {"P"}, {DefaultAddrs})
    \/ AnnounceLock("d1")
    \/ AnnounceCheck("d1")
    \/ SendOut("d1")
    \/ NextCall("n1")
    \/ NextRecv("n1")

SpecLRU == InitLRU /\ [][NextLRU]_vars

\* C8: once announceCacheSize distinct other CIDs have been admitted since
\* CID c was last announced (announceCacheSize + 1 distinct CIDs with c),
\* c is no longer in the dedup set and a re-announcement of c is admitted
\* (sent on to Next again).
C8_EvictedCidReadmitted ==
    [][\A t \in Directs :
          (Reannounces(t)
           /\ Cardinality(othersSince[amsg[t].Cid]) >= announceCacheSize) =>
              AdmittedNow(t)]_vars

\* CID 1 was delivered, announceCacheSize other CIDs were admitted and
\* consumed, and CID 1 was admitted and delivered again.
C8_Witness ==
    /\ nDelivered[1] = 2
    /\ windowPassed[1]
    /\ Contains(announceCache, 1)
    /\ outChan = <<>>

\* C10 as claimed: when Next delivers a CID c it has delivered before,
\* UncacheCid(c) ran since the previous delivery or at least
\* announceCacheSize distinct other CIDs were admitted between the last
\* announcement of c and the admission of the repeat.
C10_RepeatOnlyAfterWindow ==
    [][\A n \in Nexters, c \in tracked :
          DeliversAgain(n, c) => (uncachedSinceRecv[c] \/ windowPassed[c])]_vars

\* C10 amended: when a CID c that was admitted before is admitted again,
\* UncacheCid(c) ran since c was last admitted or at least
\* announceCacheSize distinct other CIDs reached the dedup set (admitted,
\* or repeats that update promoted) since c was last announced.
C10_ReadmittedOnlyAfterWindow ==
    [][\A t \in Directs :
          (Reannounces(t) /\ AdmittedNow(t)) =>
              \/ uncachedSince[amsg[t].Cid]
              \/ Cardinality(seenSince[amsg[t].Cid]) >= announceCacheSize]_vars

\* CID 1 was delivered twice although fewer than announceCacheSize other
\* CIDs were admitted between its two admissions: a promoted repeat took
\* the place of one.
C10_Witness ==
    /\ nDelivered[1] = 2
    /\ ~windowPassed[1]
    /\ ~uncachedSinceRecv[1]

(***************************************************************************)
(* SpecAllow: the peer-allow predicate accepts H and P and rejects Q.  Two *)
(* Direct callers and the watcher bring announcements of CID 1 from P and  *)
(* from Q; a Next caller consumes.  The receiver stays open.               *)
(***************************************************************************)
Ingress == Directs \cup {Watcher}

InitAllow == \E cfg \in Configs : NewReceiver(cfg, {1}, FALSE)

MixedMsgs == GossipMsgs({"P", "Q"}, {NoOrig}, {1}, {DefaultAddrs}, {TRUE})

NextAllow ==
    \/ \E t \in Directs : DirectCall(t, {1}, {"P", "Q"}, {DefaultAddrs})
    \/ \E m \in MixedMsgs : WatchMessage(m)
    \/ \E t \in Ingress : AnnounceLock(t)
    \/ \E t \in Ingress : AnnounceCheck(t)
    \/ \E t \in Ingress : SendOut(t)
    \/ UncacheStep("u1", {1})
    \/ NextCall("n1")
    \/ NextRecv("n1")
    \/ NextCtx("n1")

SpecAllow == InitAllow /\ [][NextAllow]_vars

\* A peer-allow predicate is configured and returns false for peerID.
PredicateRejects(peerID) == allowPeer # NilFunc /\ peerID \notin allowPeer

\* C11: an announcement whose peer ID the peer-allow predicate rejects is
\* never queued for or delivered to Next, and it leaves the dedup set as it
\* was (only the announceCheck of an accepted announcement and UncacheCid
\* change the set); so an announcement of a CID that was never admitted,
\* from an accepted peer, is admitted.
C11_RejectedPeerLeavesNoTrace ==
    /\ [](\A n \in Nexters :
            got[n] # NoMsg => ~PredicateRejects(got[n].PeerID))
    /\ [](\A i \in 1..Len(outChan) : ~PredicateRejects(outChan[i].PeerID))
    /\ [][announceCache' # announceCache =>
             \E t \in Tasks :
                 /\ pc[t] \in {"h_locked", "u_locked"}
                 /\ pc'[t] # pc[t]
                 /\ pc[t] = "h_locked" => ~PredicateRejects(amsg[t].PeerID)]_vars
    /\ [][\A t \in Ingress :
             (/\ pc[t] = "h_locked"
              /\ pc'[t] # "h_locked"
              /\ amsg[t].Cid \in tracked
              /\ ~everAdmitted[amsg[t].Cid]) => AdmittedNow(t)]_vars

\* Direct with the rejected peer Q returned nil, and the same CID announced
\* by the accepted peer P was delivered.
C11_Witness ==
    /\ \E d \in Directs :
          /\ pc[d] = "returned"
          /\ ret[d] = Nil
          /\ amsg[d].PeerID = "Q"
          /\ amsg[d].Cid = 1
    /\ \E n \in Nexters :
          /\ pc[n] = "returned"
          /\ ret[n] = Nil
          /\ got[n].Cid = 1
          /\ got[n].PeerID = "P"
    /\ nDelivered[1] = 1

(***************************************************************************)
(* SpecFilter: receivers with and without filterIPs.  A Direct caller and  *)
(* the watcher bring announcements of CID 1 whose address lists mix        *)
(* public, private, loopback, unspecified and nil entries; UncacheCid lets *)
(* the CID through again and a Next caller consumes.                       *)
(***************************************************************************)
FilterConfigs ==
    [host : {TRUE}, topicName : {TRUE}, optTopic : {TRUE},
     allowPeer : {NilFunc}, filterIPs : BOOLEAN, resend : {FALSE}]

InitFilter == \E cfg \in FilterConfigs : NewReceiver(cfg, {}, FALSE)

MixedAddrs ==
    {<<PublicAddr>>, <<PrivateAddr>>,
     <<LoopbackAddr, NilAddr, UnspecifiedAddr>>,
     <<PublicAddr, PrivateAddr, NilAddr, PublicAddr>>}

AddrMsgs == GossipMsgs({"P"}, {NoOrig}, {1}, MixedAddrs, {TRUE})

NextFilter ==
    \/ DirectCall("d1", {1}, {"P"}, MixedAddrs)
    \/ \E m \in AddrMsgs : WatchMessage(m)
    \/ \E t \in {"d1", Watcher} : AnnounceLock(t)
    \/ \E t \in {"d1", Watcher} : AnnounceCheck(t)
    \/ \E t \in {"d1", Watcher} : SendOut(t)
    \/ UncacheStep("u1", {1})
    \/ NextCall("n1")
    \/ NextRecv("n1")
    \/ NextCtx("n1")

SpecFilter == InitFilter /\ [][NextFilter]_vars

\* The entries of addrs that are public or nil, in their order.
PublicOrNil(addrs) ==
    SelectSeq(addrs, LAMBDA a : a \in {PublicAddr, NilAddr})

\* C12: when filterIPs is enabled, every announcement Next returns, from
\* Direct or from gossip, holds only public addresses and nil entries,
\* namely those of the list it was announced with, in their order; when
\* filterIPs is disabled it holds the list it was announced with.
C12_DeliveredAddrsFiltered ==
    \A n \in Nexters :
        got[n] # NoMsg =>
            IF filterIPs
            THEN /\ \A i \in 1..Len(got[n].Addrs) :
                        got[n].Addrs[i] \in {PublicAddr, NilAddr}
                 /\ got[n].Addrs = PublicOrNil(got[n].announced)
            ELSE got[n].Addrs = got[n].announced

\* With filterIPs enabled Next returned a gossip announcement that arrived
\* with private and nil entries and lost the private one.
C12_Witness ==
    /\ filterIPs
    /\ \E n \in Nexters :
          /\ pc[n] = "returned"
          /\ ret[n] = Nil
          /\ got[n].via = "gossip"
          /\ got[n].announced = <<PublicAddr, PrivateAddr, NilAddr, PublicAddr>>
          /\ got[n].Addrs = <<PublicAddr, NilAddr, PublicAddr>>

(***************************************************************************)
(* Properties of the send to outChan (checked under Spec).                 *)
(***************************************************************************)
\* handleAnnounce leaves its select in this step and Direct returns.
LeavesSend(d) == pc[d] = "h_send" /\ pc'[d] = "returned"

\* C13 as claimed: Direct never returns nil for an admitted announcement
\* before a Next call has received it: when it returns nil the announcement
\* is not left waiting in outChan.
C13_DirectReturnsAfterDelivery ==
    [][\A d \in Directs :
          (LeavesSend(d) /\ ret'[d] = Nil) =>
             \A i \in 1..Len(outChan') : outChan'[i] # amsg[d]]_vars

\* C13 amended: a Direct call whose announcement passed admission blocks
\* until outChan, which buffers one announcement, takes it, or until done
\* is closed or the context is cancelled.  It returns nil exactly when it
\* has put the announcement into the empty buffer, whether or not a Next
\* call is there to receive it; otherwise it returns ErrClosed (done is
\* closed) or the context's error.  At most one announcement is buffered.
C13_DirectReturnsWhenBuffered ==
    /\ [](Len(outChan) <= 1)
    /\ [][\A d \in Directs :
             LeavesSend(d) =>
                \/ /\ ret'[d] = Nil
                   /\ outChan = <<>>
                   /\ outChan' = <<amsg[d]>>
                \/ /\ ret'[d] = ErrClosed
                   /\ done > 0
                   /\ outChan' = outChan
                \/ /\ ret'[d] = CtxErr
                   /\ outChan' = outChan]_vars

\* Direct returned nil while its announcement sits in outChan and no Next
\* call was ever made.
C13_Witness ==
    /\ \E d \in Directs :
          /\ pc[d] = "returned"
          /\ ret[d] = Nil
          /\ outChan = <<amsg[d]>>
    /\ \A n \in Nexters : pc[n] = "idle"
    /\ ~closed

(***************************************************************************)
(* SpecOrder: two Direct callers and the watcher each bring a stream of    *)
(* announcements, every one of the newest CID announced so far or of the   *)
(* next CID, so that within an ingress path the CIDs arrive in ascending   *)
(* order; a Direct caller may give up on a cancelled context; a Next       *)
(* caller consumes.  The receiver stays open.                              *)
(***************************************************************************)
MaxSeq == 4

InitOrder == \E cfg \in GossipConfigs : NewReceiver(cfg, {}, TRUE)

ArrivingCids == {c \in {fresh, fresh + 1} : c <= MaxSeq}

ArrivingMsgs == GossipMsgs({"P"}, {NoOrig}, ArrivingCids, {DefaultAddrs}, {TRUE})

NextOrder ==
    \/ \E t \in Directs : DirectCall(t, ArrivingCids, {"P"}, {DefaultAddrs})
    \/ \E m \in ArrivingMsgs : WatchMessage(m)
    \/ \E t \in Ingress : AnnounceLock(t)
    \/ \E t \in Ingress : AnnounceCheck(t)
    \/ \E t \in Ingress : SendOut(t)
    \/ \E t \in Directs : SendCtx(t)
    \/ NextCall("n1")
    \/ NextRecv("n1")
    \/ NextCtx("n1")

SpecOrder == InitOrder /\ [][NextOrder]_vars

\* The pending announcements admitted through ingress path t, oldest first.
PendingOf(t) == SelectSeq(pendingAdmits, LAMBDA e : e[2] = t)

\* Next caller n receives the announcement at the head of outChan.
Receives(n) == pc[n] = "n_wait" /\ pc'[n] = "returned" /\ ret'[n] = Nil

\* The announcement a receiving Next call returns, as a pendingAdmits entry.
Received(n) == <<got'[n].Cid, got'[n].by>>

\* C14 as stated: Next returns announcements in the order they passed
\* admission, whichever ingress paths they came through: every announcement
\* returned is the oldest pending one.
C14_DeliveredInAdmissionOrder ==
    [][\A n \in Nexters :
          Receives(n) => Received(n) = Head(pendingAdmits)]_vars

\* C14 amended: an admitted announcement is sent to outChan after the mutex
\* is released, so across ingress paths the order of delivery is the order
\* of the sends, not of the admissions.  Within an ingress path the order of
\* admission is kept: the announcement returned is the oldest pending one
\* of its path, a path has at most two pending announcements (one in the
\* buffer of outChan, one being sent), and outChan holds at most one.
C14_DeliveredInPathAdmissionOrder ==
    /\ [][\A n \in Nexters :
             Receives(n) =>
                /\ PendingOf(got'[n].by) # <<>>
                /\ Received(n) = Head(PendingOf(got'[n].by))]_vars
    /\ [](\A t \in Ingress : Len(PendingOf(t)) <= 2)
    /\ [](Len(pendingAdmits) <= Cardinality(Ingress) + 1)
    /\ [](Len(outChan) <= 1)

\* d1 was admitted with a CID before d2 was admitted with the next, and
\* Next returned d2's announcement while d1 is still sending its own.
C14_Witness ==
    /\ Len(pendingAdmits) = 1
    /\ pendingAdmits[1][2] = "d1"
    /\ pc["d1"] = "h_send"
    /\ \E n \in Nexters :
          /\ pc[n] = "returned"
          /\ ret[n] = Nil
          /\ got[n].by = "d2"
          /\ got[n].Cid > amsg["d1"].Cid

\* C15: within one ingress path (the watcher, or a Direct caller making
\* its calls one after the other) the accepted announcements are returned
\* by Next in the order they arrived, each CID once: an announcement
\* returned arrived before every other pending announcement of its path
\* (in SpecOrder a path's CIDs arrive in ascending order).
C15_DeliveredInArrivalOrder ==
    [][\A n \in Nexters :
          Receives(n) =>
             LET q == PendingOf(got'[n].by) IN
             /\ \E i \in 1..Len(q) : q[i] = Received(n)
             /\ Cardinality({i \in 1..Len(q) : q[i] = Received(n)}) = 1
             /\ \A i \in 1..Len(q) : q[i][1] >= got'[n].Cid]_vars

\* d1 announced two distinct CIDs one after the other; Next returned the
\* first and the second is queued behind it.
C15_Witness ==
    /\ pc["d1"] = "returned"
    /\ ret["d1"] = Nil
    /\ outChan # <<>>
    /\ Head(outChan).by = "d1"
    /\ \E n \in Nexters :
          /\ pc[n] = "returned"
          /\ ret[n] = Nil
          /\ got[n].by = "d1"
          /\ got[n].Cid < Head(outChan).Cid


(***************************************************************************)
(* SpecResend: the receiver is built with or without WithResend.  A Direct *)
(* caller and the watcher bring announcements of CID 1 and 2, a Next       *)
(* caller consumes, Close may be called.                                   *)
(***************************************************************************)
ResendConfigs ==
    [host : {TRUE}, topicName : {TRUE}, optTopic : {TRUE},
     allowPeer : {NilFunc}, filterIPs : {FALSE}, resend : BOOLEAN]

InitResend == \E cfg \in ResendConfigs : NewReceiver(cfg, {}, FALSE)

ResendMsgs == GossipMsgs({"P"}, {NoOrig}, {1, 2}, {DefaultAddrs}, {TRUE})

NextResend ==
    \/ CloseStep("c1")
    \/ DirectCall("d1", {1, 2}, {"Q"}, {DefaultAddrs})
    \/ HandleStep("d1")
    \/ Republish("d1")
    \/ WatchStep(ResendMsgs)
    \/ HandleStep(Watcher)
    \/ NextStep("n1")

SpecResend == InitResend /\ [][NextResend]_vars

\* C16: with resend enabled, a Direct announcement is republished (the
\* attempt has completed, whatever its outcome) before it is sent to
\* outChan, hence before Next returns it; the watcher's announcements are
\* never republished.
C16_RepublishBeforeDelivery ==
    /\ [](resend =>
            /\ \A d \in Directs : pc[d] = "h_send" => amsg[d].sent
            /\ \A i \in 1..Len(outChan) :
                  outChan[i].via = "direct" => outChan[i].sent
            /\ \A n \in Nexters : got[n].via = "direct" => got[n].sent)
    /\ [](\A n \in Nexters : got[n].via = "gossip" => ~got[n].sent)

\* With resend enabled Next returned a Direct announcement, republished.
C16_Witness ==
    /\ resend
    /\ \E n \in Nexters :
          /\ pc[n] = "returned"
          /\ ret[n] = Nil
          /\ got[n].via = "direct"
          /\ got[n].sent


(***************************************************************************)
(* Results of Direct (checked under Spec)                                  *)
(***************************************************************************)
\* Direct caller d returns in this step.
DirectReturns(d) == pc[d] # "returned" /\ pc'[d] = "returned"

\* C17: an announcement dropped on admission is not an error.  A Direct
\* call whose peer the peer-allow predicate rejects returns nil at once;
\* one whose CID announceCheck finds in the dedup set of an open receiver
\* returns nil and queues nothing.  Direct returns nothing but nil,
\* ErrClosed (only once the receiver is closed) and the context's error
\* (only from the select of the send).
C17_DropsReturnNil ==
    /\ [](\A d \in Directs : ret[d] \in {Pending, Nil, ErrClosed, CtxErr})
    /\ [](\A d \in Directs :
            PredicateRejects(amsg[d].PeerID) =>
               /\ pc[d] \in {"idle", "returned"}
               /\ pc[d] = "returned" => ret[d] = Nil)
    /\ [][\A d \in Directs :
             DirectReturns(d) =>
                /\ (/\ pc[d] = "h_locked"
                    /\ ~closed
                    /\ Contains(announceCache, amsg[d].Cid)) => DroppedNow(d)
                /\ ret'[d] = ErrClosed => closed
                /\ ret'[d] = CtxErr => pc[d] = "h_send"]_vars

\* On an open receiver Direct returned nil for an announcement from the
\* rejected peer Q, with nothing queued and nothing admitted.
C17_Witness ==
    /\ ~closed
    /\ outChan = <<>>
    /\ announceCache = <<>>
    /\ \E d \in Directs :
          /\ pc[d] = "returned"
          /\ ret[d] = Nil
          /\ amsg[d].PeerID = "Q"


(***************************************************************************)
(* SpecRelay: the watcher reads first-hop and relayed gossip messages of   *)
(* two CIDs with two address lists, from this host and from P, with and    *)
(* without address filtering; a Next caller consumes.  The receiver stays  *)
(* open.                                                                   *)
(***************************************************************************)
RelayConfigs ==
    [host : {TRUE}, topicName : {TRUE}, optTopic : {TRUE},
     allowPeer : {NilFunc}, filterIPs : BOOLEAN, resend : {FALSE}]

InitRelay == \E cfg \in RelayConfigs : NewReceiver(cfg, {}, FALSE)

RelayedMsgs ==
    GossipMsgs({"H", "P"}, {NoOrig, "H", "Q", BadPeer}, {1, 2},
               {DefaultAddrs, <<PrivateAddr, PublicAddr>>}, BOOLEAN)

NextRelay ==
    \/ \E m \in RelayedMsgs : WatchMessage(m)
    \/ AnnounceLock(Watcher)
    \/ AnnounceCheck(Watcher)
    \/ SendOut(Watcher)
    \/ NextCall("n1")
    \/ NextRecv("n1")
    \/ NextCtx("n1")

SpecRelay == InitRelay /\ [][NextRelay]_vars

\* The announcement watch builds from the decoded gossip message m, as
\* Next returns it.
AnnounceOf(m) ==
    [NoMsg EXCEPT !.Cid = m.Cid,
                  !.PeerID = IF m.OrigPeer = NoOrig THEN m.From ELSE m.OrigPeer,
                  !.Addrs = IF filterIPs THEN FilterPublic(m.Addrs) ELSE m.Addrs,
                  !.via = "gossip", !.from = m.From, !.orig = m.OrigPeer,
                  !.announced = m.Addrs]

\* C18: an announcement that came by gossip is returned by Next with the
\* peer ID of the transport sender (From) when the message has no OrigPeer
\* and with the peer decoded from OrigPeer when it is a relay from another
\* host, and with the CID and the addresses of the message (the addresses
\* filtered when filterIPs is set).
C18_GossipOrigin ==
    \A n \in Nexters :
        got[n].via = "gossip" =>
           /\ \E m \in RelayedMsgs :
                 /\ m.ok
                 /\ m.OrigPeer # BadPeer
                 /\ m.OrigPeer # NoOrig => m.From # hostID
                 /\ got[n] = AnnounceOf(m)
           /\ got[n].orig = NoOrig => got[n].PeerID = got[n].from
           /\ got[n].orig # NoOrig =>
                 /\ got[n].from # hostID
                 /\ got[n].PeerID = got[n].orig
           /\ ~filterIPs => got[n].Addrs = got[n].announced

\* Next returned CID 2 with peer Q and the message's two addresses: the
\* relay by P of an announcement that Q had published.
C18_Witness ==
    \E n \in Nexters :
        /\ pc[n] = "returned"
        /\ ret[n] = Nil
        /\ got[n].via = "gossip"
        /\ got[n].from = "P"
        /\ got[n].orig = "Q"
        /\ got[n].PeerID = "Q"
        /\ got[n].Cid = 2
        /\ got[n].Addrs = <<PrivateAddr, PublicAddr>>


(***************************************************************************)
(* SpecFanOut: a Direct caller and the watcher bring announcements of CID  *)
(* 1 and 2, and two Next callers consume concurrently.  The receiver stays *)
(* open and no CID is uncached, so each CID is admitted at most once.      *)
(***************************************************************************)
InitFanOut == \E cfg \in GossipConfigs : NewReceiver(cfg, {1, 2}, TRUE)

FanOutMsgs == GossipMsgs({"P"}, {NoOrig}, {1, 2}, {DefaultAddrs}, {TRUE})

NextFanOut ==
    \/ DirectCall("d1", {1, 2}, {"Q"}, {DefaultAddrs})
    \/ \E m \in FanOutMsgs : WatchMessage(m)
    \/ \E t \in {"d1", Watcher} : AnnounceLock(t)
    \/ \E t \in {"d1", Watcher} : AnnounceCheck(t)
    \/ \E t \in {"d1", Watcher} : SendOut(t)
    \/ SendCtx("d1")
    \/ \E n \in Nexters : NextCall(n)
    \/ \E n \in Nexters : NextRecv(n)
    \/ \E n \in Nexters : NextCtx(n)

SpecFanOut == InitFanOut /\ [][NextFanOut]_vars

\* C19: a receive from outChan gives the announcement to one Next caller
\* and takes it out of the channel: the announcement returned was pending
\* (admitted and not yet returned) and is pending no more, no other Next
\* caller returns in the same step, and a CID admitted once is returned at
\* most once, however the Next callers and the ingress paths interleave.
C19_ReturnedByAtMostOneNext ==
    /\ [](\A c \in tracked : nDelivered[c] <= 1)
    /\ [][\A n \in Nexters :
             Receives(n) =>
                /\ \E i \in 1..Len(pendingAdmits) : pendingAdmits[i] = Received(n)
                /\ Len(pendingAdmits') = Len(pendingAdmits) - 1
                /\ got'[n] = Head(outChan)
                /\ outChan' = Tail(outChan)
                /\ \A m \in Nexters \ {n} : ~Receives(m)]_vars

\* Both Next callers returned, one with CID 1 and the other with CID 2,
\* and nothing is pending.
C19_Witness ==
    /\ \A n \in Nexters : pc[n] = "returned" /\ ret[n] = Nil
    /\ got["n1"].Cid # got["n2"].Cid
    /\ got["n1"].by # got["n2"].by
    /\ pendingAdmits = <<>>
    /\ \A c \in tracked : nDelivered[c] = 1


(***************************************************************************)
(* FairBlocked: nobody calls Next.  A Direct caller, whose context is      *)
(* never cancelled, and the watcher bring announcements of CID 1 and 2:    *)
(* the first one admitted fills outChan, the sender of the second blocks.  *)
(* Two Close callers run; closing the topic succeeds.  Every task that can *)
(* take a step eventually takes one, and sync.Mutex hands the lock to      *)
(* every waiter (starvation mode).                                         *)
(***************************************************************************)
InitBlocked == \E cfg \in GossipConfigs : NewReceiver(cfg, {}, FALSE)

NextBlockedSend ==
    \/ \E t \in Closers :
          \/ CloseCall(t)
          \/ CloseLock(t)
          \/ CloseCheck(t)
          \/ CloseDone(t)
          \/ CloseCancelWatch(t)
          \/ CloseFinish(t, Nil)
    \/ DirectCall("d1", {1, 2}, {"Q"}, {DefaultAddrs})
    \/ \E t \in {"d1", Watcher} :
          \/ AnnounceLock(t)
          \/ AnnounceCheck(t)
          \/ SendOut(t)
          \/ SendClosed(t)
    \/ SendCtx(Watcher)
    \/ WatchStep(FanOutMsgs)

FairBlocked ==
    /\ InitBlocked
    /\ [][NextBlockedSend]_vars
    /\ \A t \in Closers :
          /\ SF_vars(CloseLock(t))
          /\ WF_vars(CloseCheck(t) \/ CloseDone(t) \/ CloseCancelWatch(t)
                     \/ CloseFinish(t, Nil))
    /\ \A t \in {"d1", Watcher} :
          /\ SF_vars(AnnounceLock(t))
          /\ WF_vars(AnnounceCheck(t))
          /\ WF_vars(SendOut(t) \/ SendClosed(t) \/ SendCtx(Watcher))
    /\ WF_vars(WatchStopped)

\* Ingress task t passed admission and is blocked in the select of its
\* send: outChan is full and nobody receives from it.
BlockedSending(t) ==
    /\ pc[t] = "h_send"
    /\ ~SendReady(outChan)
    /\ \A n \in Nexters : pc[n] # "n_wait"

\* The blocked send of t ended as Close makes it end: Direct returned
\* ErrClosed, watch left its loop.
Unblocked(t) ==
    IF t = Watcher
    THEN pc[t] = "w_exited"
    ELSE pc[t] = "returned" /\ ret[t] = ErrClosed

\* C20: when Close is called while an ingress task is blocked sending an
\* admitted announcement to the full outChan, with no Next consumer, the
\* task eventually returns ErrClosed, the watcher exits and closes
\* watchDone, and the Close call returns.
C20_CloseUnblocksSender ==
    \A t \in Ingress, c \in Closers :
        (BlockedSending(t) /\ pc[c] # "idle") ~>
            /\ Unblocked(t)
            /\ pc[Watcher] = "w_exited"
            /\ watchDone = "closed"
            /\ pc[c] = "returned"


(***************************************************************************)
(* Close and the state lock (checked under Spec)                           *)
(***************************************************************************)
\* Close call c is past its critical section: it closes done, cancels the
\* watcher, waits on watchDone, or has returned.
PastCriticalSection(c) ==
    pc[c] \in {"c_closeDone", "c_cancelWatch", "c_waitWatch", "returned"}

\* C21: a Close call does not own announceMutex while it closes done,
\* while it waits on watchDone, or after it has returned.
C21_CloseHoldsNoLockOutside ==
    \A c \in Closers : PastCriticalSection(c) => announceMutex # c


\* C22: done is closed once.  Whatever the number of Close calls, one
\* after the other or concurrent, close(r.done) runs at most once, and it
\* is run on the open done by the call that marked the receiver closed
\* (every other call finds closed set and returns before it).
C22_DoneClosedOnce ==
    /\ [](done <= 1)
    /\ [](done = 1 => closed)
    /\ [](Cardinality({c \in Closers :
                          pc[c] \in {"c_closeDone", "c_cancelWatch",
                                     "c_waitWatch"}}) <= 1)
    /\ [][done' # done =>
             /\ done = 0
             /\ done' = 1
             /\ \E c \in Closers :
                   pc[c] = "c_closeDone" /\ pc'[c] = "c_cancelWatch"]_vars

\* Both Close calls have returned and done was closed once.
C22_Witness ==
    /\ \A c \in Closers : pc[c] = "returned"
    /\ done = 1


(***************************************************************************)
(* Close and the subscriptions (checked under Spec)                        *)
(***************************************************************************)
\* The subscriptions that were opened and not cancelled.
OpenSubs == {i \in 1..Len(subs) : subs[i] = "open"}

\* Close was called and every Close call made has returned.
CloseReturned ==
    /\ \E c \in Closers : pc[c] = "returned"
    /\ \A c \in Closers : pc[c] \in {"idle", "returned"}

\* C23: once Close has returned, every subscription the receiver opened,
\* at construction or when the watcher restarted it, is cancelled.
C23_NoOpenSubscriptionAfterClose == CloseReturned => OpenSubs = {}


(***************************************************************************)
(* SpecTopic: the receiver is built with its own topic (host and topic     *)
(* name, no WithTopic), with a supplied topic (with or without a host), or *)
(* with no topic and no host.  Two Close callers run, closing the topic or *)
(* the sender succeeds or fails; the watcher reads and may restart its     *)
(* subscription; a Direct caller announces.                                *)
(***************************************************************************)
TopicConfigs ==
    {cfg \in [host : BOOLEAN, topicName : BOOLEAN, optTopic : BOOLEAN,
              allowPeer : {NilFunc}, filterIPs : {FALSE}, resend : {FALSE}] :
        cfg.host => (cfg.topicName \/ cfg.optTopic)}

InitTopic == \E cfg \in TopicConfigs : NewReceiver(cfg, {}, FALSE)

NextTopic ==
    \/ \E t \in Closers : CloseStep(t)
    \/ DirectCall("d1", {1}, {"P"}, {DefaultAddrs})
    \/ \E t \in {"d1", Watcher} : HandleStep(t)
    \/ WatchStep(PlainMsgs)
    \/ WatchRestartStep

SpecTopic == InitTopic /\ [][NextTopic]_vars

\* The receiver made its topic itself (cancelPubsub is set at construction
\* and called by Close), or was given one with WithTopic.
OwnsTopic == cancelPubsub # "nil"
HasSuppliedTopic == cancelPubsub = "nil" /\ topic # "nil"

\* C24: Close closes the topic and calls cancelPubsub exactly when the
\* receiver made the topic itself, and then leaves the sender alone; with
\* a supplied topic it never closes the topic and closes the sender; with
\* no topic it closes nothing.  Close returns nil or the error of the
\* branch it took.
C24_CloseEndsOwnTopicOnly ==
    /\ [](topic = "closed" <=> cancelPubsub = "called")
    /\ [](OwnsTopic => sender # "closed")
    /\ [](HasSuppliedTopic => topic = "supplied")
    /\ [](CloseReturned =>
             /\ OwnsTopic => (topic = "closed" /\ cancelPubsub = "called")
             /\ HasSuppliedTopic => sender = "closed")
    /\ [](\A c \in Closers :
             pc[c] = "returned" =>
                /\ ret[c] \in {Nil, CloseErr}
                /\ ret[c] = CloseErr => (topic = "closed" \/ sender = "closed"))

\* Close has returned on a receiver with a supplied topic: the sender is
\* closed, with an error, and the topic is not.
C24_Witness ==
    /\ CloseReturned
    /\ topic = "supplied"
    /\ sender = "closed"
    /\ \E c \in Closers : ret[c] = CloseErr


(***************************************************************************)
(* Republish and delivery (checked under SpecResend)                       *)
(***************************************************************************)
\* C25: a republish that fails does not stop delivery.  With resend set,
\* a Direct announcement goes from the republish to the send whether
\* r.sender.Send failed or not; Direct returns nil exactly when the
\* announcement was put into outChan, and an announcement whose republish
\* failed is returned by Next like any other.
C25_RepublishFailureNotFatal ==
    [][\A d \in Directs :
          /\ (pc[d] = "h_republish" /\ pc'[d] # "h_republish") =>
                /\ pc'[d] = "h_send"
                /\ amsg'[d].sent
                /\ amsg'[d].resendErr \in {Nil, SendErr}
                /\ outChan' = outChan
          /\ (LeavesSend(d) /\ amsg[d].resendErr = SendErr) =>
                \/ ret'[d] = Nil /\ outChan' = Append(outChan, amsg[d])
                \/ ret'[d] \in {ErrClosed, CtxErr} /\ outChan' = outChan]_vars

\* The republish of d1's announcement failed; Direct returned nil and Next
\* returned the announcement.
C25_Witness ==
    /\ resend
    /\ pc["d1"] = "returned"
    /\ ret["d1"] = Nil
    /\ amsg["d1"].resendErr = SendErr
    /\ \E n \in Nexters :
          /\ pc[n] = "returned"
          /\ ret[n] = Nil
          /\ got[n] = amsg["d1"]


(***************************************************************************)
(* SpecRepub: the receiver is built with or without WithResend, with its   *)
(* own topic, a supplied topic or none, with or without a host.  A Direct  *)
(* caller and the watcher bring announcements of CID 1 and 2, a Next       *)
(* caller consumes.  The receiver stays open.                              *)
(***************************************************************************)
RepubConfigs ==
    {cfg \in [host : BOOLEAN, topicName : BOOLEAN, optTopic : BOOLEAN,
              allowPeer : {NilFunc}, filterIPs : {FALSE}, resend : BOOLEAN] :
        cfg.host => (cfg.topicName \/ cfg.optTopic)}

InitRepub == \E cfg \in RepubConfigs : NewReceiver(cfg, {}, FALSE)

NextRepub ==
    \/ DirectCall("d1", {1, 2}, {"Q"}, {DefaultAddrs})
    \/ \E m \in ResendMsgs : WatchMessage(m)
    \/ \E t \in {"d1", Watcher} : AnnounceLock(t)
    \/ \E t \in {"d1", Watcher} : AnnounceCheck(t)
    \/ \E t \in {"d1", Watcher} : Republish(t)
    \/ \E t \in {"d1", Watcher} : SendOut(t)
    \/ SendCtx("d1")
    \/ NextCall("n1")
    \/ NextRecv("n1")
    \/ NextCtx("n1")

SpecRepub == InitRepub /\ [][NextRepub]_vars

\* Ingress task t calls r.republish in this step.
Republishes(t) == pc[t] = "h_republish" /\ pc'[t] # "h_republish"

EndsSend(t) == pc[t] = "h_send" /\ pc'[t] # "h_send"

\* C27: outChan holds at most one announcement that Next has not taken.
\* While it holds one, an ingress task with a second admitted announcement
\* stays in its send: it leaves only because done is closed (ErrClosed) or
\* its context is cancelled, and then queues nothing; it queues its
\* announcement only once outChan is empty.
C27_SecondAdmittedBlocks ==
    /\ [](Len(outChan) <= 1)
    /\ [][\A t \in Ingress :
             EndsSend(t) =>
                IF outChan # <<>>
                THEN /\ outChan' = outChan
                     /\ done > 0 \/ CtxCancelled(t)
                     /\ t \in Directs => ret'[t] \in {ErrClosed, CtxErr}
                     /\ t = Watcher => pc'[t] = "w_exited"
                     /\ ret'[t] = ErrClosed => done > 0
                ELSE \/ outChan' = <<amsg[t]>>
                     \/ outChan' = outChan /\ (done > 0 \/ CtxCancelled(t))]_vars

\* On an open receiver one announcement is queued and both the Direct
\* caller and the watcher are blocked sending the next.
C27_Witness ==
    /\ ~closed
    /\ Len(outChan) = 1
    /\ pc["d1"] = "h_send"
    /\ pc[Watcher] = "h_send"
    /\ \A n \in Nexters : pc[n] # "n_wait"


(***************************************************************************)
(* SpecCache: the dedup set under a long run of updates and removes.  A    *)
(* Direct caller announces CID 1, the newest CID again or a CID never      *)
(* announced before, until MaxCid CIDs are used up, and gives up each send *)
(* on its context; UncacheCid is called for CID 1, cached or not.  The     *)
(* cache has its real capacity.                                            *)
(***************************************************************************)
InitCache == \E cfg \in GossipConfigs : NewReceiver(cfg, {}, FALSE)

NextCache ==
    \/ DirectCall("d1", StreamCids, {"P"}, {DefaultAddrs})
    \/ AnnounceLock("d1")
    \/ AnnounceCheck("d1")
    \/ SendCtx("d1")
    \/ UncacheStep("u1", {1})

SpecCache == InitCache /\ [][NextCache]_vars

\* The keys of the cache.
Keys(cache) == {cache[i] : i \in 1..Len(cache)}

\* C28: after any sequence of admissions and UncacheCid calls the dedup
\* set holds at most announceCacheSize keys and no key twice.
C28_CacheBoundedNoDuplicates ==
    /\ Len(announceCache) <= announceCacheSize
    /\ Cardinality(Keys(announceCache)) = Len(announceCache)

\* The cache is full, after an eviction and after UncacheCid removed CID 1
\* and CID 1 was admitted again.
C28_Witness ==
    /\ Len(announceCache) = announceCacheSize
    /\ fresh > announceCacheSize + 1
    /\ Contains(announceCache, 1)
    /\ ~Contains(announceCache, 2)
    /\ pc["u1"] = "returned"
    /\ announceCache[1] = 1

\* Direct caller d completes announceCheck on the open receiver in this
\* step.
ChecksCache(d) == pc[d] = "h_locked" /\ pc'[d] # "h_locked" /\ ~closed

\* C29: announcing a CID that is in the dedup set drops the announcement
\* and makes the CID the most recently used, the other keys keeping their
\* order, so that the key evicted next is another one; announcing an
\* absent CID when the set is full evicts the least recently used key,
\* and only that one.
C29_RepeatPromotedOldestEvicted ==
    [][\A d \in Directs :
          ChecksCache(d) =>
             LET cid == amsg[d].Cid
                 n == Len(announceCache) IN
             IF Contains(announceCache, cid)
             THEN /\ DroppedNow(d)
                  /\ announceCache' =
                        <<cid>> \o SelectSeq(announceCache, LAMBDA k : k # cid)
                  /\ n > 1 => announceCache'[n] # cid
             ELSE /\ AdmittedNow(d)
                  /\ announceCache'[1] = cid
                  /\ IF n = announceCacheSize
                     THEN /\ Len(announceCache') = n
                          /\ \A i \in 1..(n - 1) :
                                announceCache'[i + 1] = announceCache[i]
                          /\ Keys(announceCache) \ Keys(announceCache')
                                = {announceCache[n]}
                     ELSE announceCache' = <<cid>> \o announceCache]_vars

\* With the set full and CID 1 its oldest key, CID 1 was announced again
\* and promoted, and the next new CID evicted CID 2 instead: the set holds
\* the new CID, then CID 1, and no CID 2.
C29_Witness ==
    /\ Len(announceCache) = announceCacheSize
    /\ announceCache[1] = announceCacheSize + 1
    /\ announceCache[2] = 1
    /\ ~Contains(announceCache, 2)
    /\ Contains(announceCache, 3)
    /\ pc["u1"] = "idle"


(***************************************************************************)
(* The watcher's loop (checked under Spec)                                 *)
(***************************************************************************)
\* watch leaves its loop in this step.
WatchExits == pc[Watcher] # "w_exited" /\ pc'[Watcher] = "w_exited"

\* watch replaces its subscription in this step.
Resubscribes == pc[Watcher] = "w_relocked" /\ pc'[Watcher] = "w_read"

\* C30: after a read error watch cancels its subscription and opens a new
\* one while it owns the mutex, and reads on.  It leaves its loop only
\* when the read ends on cancellation or on a cancelled subscription, when
\* subscribing again fails, or when handleAnnounce returns ErrClosed or
\* the cancelled context's error; it closes watchDone when it leaves, and
\* at no other time, and never runs again.
C30_WatcherRecoversAndExitsOnce ==
    /\ [][Resubscribes =>
             /\ announceMutex = Watcher
             /\ announceMutex' = Unlocked
             /\ subs'[topicSub] = "cancelled"
             /\ topicSub' # topicSub
             /\ topicSub' \notin DOMAIN subs
             /\ subs'[topicSub'] = "open"]_vars
    /\ [][WatchExits =>
             \/ /\ pc[Watcher] = "w_read"
                /\ cancelWatch = "called" \/ subs[topicSub] = "cancelled"
             \/ /\ pc[Watcher] = "w_relocked"
                /\ subs'[topicSub] = "cancelled"
                /\ topicSub' = 0
             \/ /\ pc[Watcher] = "h_locked"
                /\ closed
             \/ /\ pc[Watcher] = "h_send"
                /\ done > 0 \/ cancelWatch = "called"]_vars
    /\ [][(watchDone' # watchDone) <=> WatchExits]_vars
    /\ [][watchDone' # watchDone =>
             (watchDone = "open" /\ watchDone' = "closed")]_vars
    /\ [][pc[Watcher] = "w_exited" => pc'[Watcher] = "w_exited"]_vars
    /\ [](pc[Watcher] = "w_exited" <=> watchDone = "closed")

\* The watcher replaced its subscription after a read error and is handling
\* a message read from the new one; the receiver is open.
C30_Witness ==
    /\ ~closed
    /\ subs = <<"cancelled", "open">>
    /\ topicSub = 2
    /\ pc[Watcher] = "h_send"
    /\ watchDone = "open"

(***************************************************************************)
(* Every construction NewReceiver accepts: the watcher and its             *)
(* subscription.                                                           *)
(***************************************************************************)

\* Host present or absent, topic name empty or not, WithTopic given or not.
WatchConfigs ==
    [host : BOOLEAN, topicName : BOOLEAN, optTopic : BOOLEAN,
     allowPeer : {NilFunc}, filterIPs : {FALSE}, resend : {FALSE}]

\* watch calls r.topicSub.Next(ctx) on the nil *pubsub.Subscription that
\* NewReceiver stored when it had no topic: a nil-pointer dereference that
\* ends the watcher goroutine by panic, before close(r.watchDone).
WatchNilSubscription ==
    /\ pc[Watcher] = "w_read"
    /\ topicSub = 0
    /\ pc' = [pc EXCEPT ![Watcher] = "w_panic"]
    /\ UNCHANGED <<recvVars, subs, amsg, ret, got, histVars>>

InitWatch == \E cfg \in WatchConfigs : NewReceiver(cfg, {}, FALSE)

NextWatch ==
    \/ \E t \in Closers : CloseStep(t)
    \/ DirectCall("d1", {1}, {"P"}, {DefaultAddrs})
    \/ \E t \in {"d1", Watcher} : HandleStep(t)
    \/ WatchStep(PlainMsgs)
    \/ WatchRestartStep
    \/ WatchNilSubscription

SpecWatch == InitWatch /\ [][NextWatch]_vars

\* C31: whenever the background watcher is running (NewReceiver started it
\* and it has not left watch), the receiver holds a subscription for it to
\* read from, whatever the construction configuration was.
C31_StartedWatcherHasSubscription ==
    (cancelWatch # "nil" /\ pc[Watcher] \notin {"w_exited", "w_panic"})
        => topicSub # 0

(***************************************************************************)
(* SpecFail: deliveries that fail after admission.  A Direct caller        *)
(* announces CIDs 1 and 2 under a context that may be cancelled at any     *)
(* moment, the watcher reads announcements of CID 1, a Next caller         *)
(* consumes, UncacheCid is called for CID 2 and Close ends the run.        *)
(***************************************************************************)
InitFail == \E cfg \in GossipConfigs : NewReceiver(cfg, {1, 2}, FALSE)

NextFail ==
    \/ CloseStep("c1")
    \/ UncacheStep("u1", {2})
    \/ DirectCall("d1", {1, 2}, {"P"}, {DefaultAddrs})
    \/ \E t \in {"d1", Watcher} : HandleStep(t)
    \/ NextStep("n1")
    \/ WatchStep(PlainMsgs)

SpecFail == InitFail /\ [][NextFail]_vars

\* C32: a delivery that fails after admission (handleAnnounce leaves its
\* select with the context's error or ErrClosed) leaves the dedup set and
\* outChan as they were, and an announcement is queued only by a call that
\* returns nil in the same step, so the failed one never reaches Next.  The
\* CID stays in the set: when a CID was admitted, was never delivered, is
\* neither queued nor on its way to outChan, UncacheCid did not run for it
\* since its admission and fewer than announceCacheSize other CIDs reached
\* the set since, the next announcement of it is not admitted; on an open
\* receiver it is dropped (Direct returns nil, watch reads on, nothing is
\* queued).
C32_FailedDeliveryStaysCached ==
    /\ [][\A t \in Ingress :
             (EndsSend(t) /\ ret'[t] \in {CtxErr, ErrClosed}) =>
                /\ announceCache' = announceCache
                /\ outChan' = outChan
                /\ nDelivered' = nDelivered]_vars
    /\ [][outChan' # outChan /\ Len(outChan') >= Len(outChan) =>
             \E t \in Ingress :
                 /\ EndsSend(t)
                 /\ outChan' = Append(outChan, amsg[t])
                 /\ IF t = Watcher THEN pc'[t] = "w_read" ELSE ret'[t] = Nil]_vars
    /\ [][\A t \in Ingress :
             (/\ pc[t] = "h_locked"
              /\ pc'[t] # "h_locked"
              /\ amsg[t].Cid \in tracked
              /\ everAdmitted[amsg[t].Cid]
              /\ nDelivered[amsg[t].Cid] = 0
              /\ \A i \in 1..Len(outChan) : outChan[i].Cid # amsg[t].Cid
              /\ \A o \in Ingress : InFlight(o) => amsg[o].Cid # amsg[t].Cid
              /\ ~uncachedSince[amsg[t].Cid]
              /\ Cardinality(seenSince[amsg[t].Cid]) < announceCacheSize) =>
                /\ ~AdmittedNow(t)
                /\ Contains(announceCache', amsg[t].Cid)
                /\ ~closed =>
                      /\ outChan' = outChan
                      /\ IF t = Watcher THEN pc'[t] = "w_read"
                         ELSE DroppedNow(t)]_vars

\* On an open receiver CID 2, which only Direct announces, was admitted and
\* never delivered or queued (the send ended with the context's error),
\* UncacheCid did not run, and a later Direct call announcing CID 2 was
\* dropped: it returned nil and CID 2 is still in the dedup set.
C32_Witness ==
    /\ ~closed
    /\ pc["d1"] = "returned"
    /\ ret["d1"] = Nil
    /\ amsg["d1"].Cid = 2
    /\ everAdmitted[2]
    /\ nDelivered[2] = 0
    /\ \A i \in 1..Len(outChan) : outChan[i].Cid # 2
    /\ \A n \in Nexters : got[n] = NoMsg \/ got[n].Cid # 2
    /\ pc["u1"] = "idle"
    /\ Contains(announceCache, 2)

(***************************************************************************)
(* The closed check of announceCheck (checked under SpecResend)            *)
(***************************************************************************)
\* C33: an announcement that reaches announceCheck after the receiver is
\* marked closed leaves the dedup set as it was, order included, and ends
\* with ErrClosed (Direct returns it, watch leaves its loop); once closed
\* is set no step inserts a key or moves one.
C33_ClosedCheckBeforeUpdate ==
    /\ [][\A t \in Ingress :
             (closed /\ pc[t] = "h_locked" /\ pc'[t] # "h_locked") =>
                /\ announceCache' = announceCache
                /\ ret'[t] = ErrClosed
                /\ pc'[t] = IF t = Watcher THEN "w_exited" ELSE "returned"]_vars
    /\ [][closed =>
             /\ Len(announceCache') <= Len(announceCache)
             /\ \A i \in 1..Len(announceCache') :
                   announceCache'[i] = announceCache[i]]_vars

\* A Direct call made after Close had returned announced CID 2, the older
\* of the two keys of the dedup set, and returned ErrClosed: CID 2 is still
\* behind CID 1.
C33_Witness ==
    /\ closed
    /\ calledAfterClose["d1"]
    /\ pc["d1"] = "returned"
    /\ ret["d1"] = ErrClosed
    /\ amsg["d1"].Cid = 2
    /\ announceCache = <<1, 2>>

============================================================================
